---- MODULE Spec2Model ----
(***************************************************************************)
(* The browser notification subsystem of notificable-purr:                 *)
(*   frontend/src/notifications/history.ts  (history store, read cursor)   *)
(*   frontend/src/notifications/index.ts    (facade, scheduler, permission *)
(*                                           gate, useNotifications hook)  *)
(* Time is an integer clock (Date.now()).  Every call of a hook operation  *)
(* is a small process whose steps are the stretches of code between two    *)
(* awaits.                                                                 *)
(***************************************************************************)
EXTENDS Integers, Sequences, FiniteSets, TLC

VARIABLES
    now,                \* Date.now()
    supported,          \* 'Notification' in window
    permission,         \* Notification.permission
    localStorage,       \* the two items of window.localStorage (absent = not in DOMAIN)
    scheduledTimeouts,  \* index.ts: const scheduledTimeouts = new Map()
    timers,             \* the armed setTimeout timers, each with what its closure captured
    calls,              \* the calls of hook operations, by call number
    nextCall,           \* number of the next call
    shown,              \* the platform display calls made so far (new Notification(...))
    events,             \* the 'notification-badge-update' events dispatched so far
    snapshot,           \* the React state of useNotifications
    rangeTimestamp,     \* useNotifications: rangeTimestamp, fixed at mount
    appended,           \* ghost: every record ever written by addToHistory (and the preloaded ones)
    fired,              \* ghost: the timers whose callback has run
    cancelled,          \* ghost: the entries clearNotification took out of the map
    fault,              \* the platform service that fails in this session ("none" if none)
    errors              \* ghost: the errors thrown so far, each with where it ended

vars == <<now, supported, permission, localStorage, scheduledTimeouts, timers,
          calls, nextCall, shown, events, snapshot, rangeTimestamp,
          appended, fired, cancelled, fault, errors>>

---------------------------------------------------------------------------
(* Bounds of the model *)

\* number of hook calls made in one behaviour
MaxCalls == 2

\* last clock value
MaxTime == 9

---------------------------------------------------------------------------
(* Program constants *)

MAX_HISTORY_SIZE == 64

\* the history window of the hook, in clock units (days)
WindowDays == 7

STORAGE_KEY_HISTORY == "notification_history"

STORAGE_KEY_LAST_READ == "notification_last_read"

\* JavaScript null / undefined of an option or a field
Null == "null"

---------------------------------------------------------------------------
(* Values *)

\* the keys a caller passes to push and clear
CallerKeys == {<<"k", 1>>}

MakeToast(title, body, action) ==
    [title |-> title, body |-> body, icon |-> Null, action |-> action]

MakeBanner(title, body) ==
    [title |-> title, body |-> body, icon |-> Null]

\* a payload is an object with optional facets toast and banner
FullPayload(title, body, action) ==
    ("toast" :> MakeToast(title, body, action)) @@ ("banner" :> MakeBanner(title, body))

ToastOnly == ("toast" :> MakeToast("T", "B", Null))

BannerOnly == ("banner" :> MakeBanner("T", "B"))

Payloads == {FullPayload("T", "B", Null), ToastOnly, BannerOnly}

\* a payload object with neither facet: {}
NoFacets == [x \in {} |-> Null]

\* the payloads that lack a facet
LackingPayloads == {ToastOnly, BannerOnly, NoFacets}

HasFacet(data, facet) == facet \in DOMAIN data

\* the options object of push: save and time are both optional
NoOptions == [x \in {} |-> Null]

OptionsAt(t) ==
    { NoOptions,
      ("save" :> FALSE),
      ("time" :> t + 1),
      ("save" :> FALSE) @@ ("time" :> t + 1),
      ("save" :> TRUE) @@ ("time" :> t) }

\* the options that ask for an immediate display at clock value t: no time
\* (absent or null), time 0, time now, a time in the past
ImmediateOptionsAt(t) ==
    { NoOptions,
      ("time" :> 0),
      ("time" :> t),
      ("time" :> t - 1),
      ("save" :> FALSE) @@ ("time" :> t) }

---------------------------------------------------------------------------
(* Number <-> string, as stored under notification_last_read *)

DigitChars == <<"0", "1", "2", "3", "4", "5", "6", "7", "8", "9">>

RECURSIVE NumberToString(_)
NumberToString(n) ==
    IF n < 10 THEN <<DigitChars[n + 1]>>
    ELSE NumberToString(n \div 10) \o <<DigitChars[(n % 10) + 1]>>

DigitValue(ch) == CHOOSE d \in 0..9 : DigitChars[d + 1] = ch

RECURSIVE ParseIntFrom(_, _)
ParseIntFrom(s, acc) ==
    IF s = <<>> THEN acc
    ELSE ParseIntFrom(Tail(s), acc * 10 + DigitValue(Head(s)))

parseInt(s) == ParseIntFrom(s, 0)

\* JSON text of a value: the value itself, tagged as text
JSONstringify(v) == [json |-> v]

JSONparse(text) == text.json

\* a stored text that is not JSON: JSON.parse throws a SyntaxError on it
CorruptText == [text |-> "{"]

JSONparseThrows(text) == "json" \notin DOMAIN text

---------------------------------------------------------------------------
(* localStorage *)

getItem(ls, k) == IF k \in DOMAIN ls THEN ls[k] ELSE Null

HasItem(ls, k) == k \in DOMAIN ls

setItem(ls, k, v) == [x \in DOMAIN ls \cup {k} |-> IF x = k THEN v ELSE ls[x]]

\* the faults of a session: the storage cannot be accessed at all, the storage
\* refuses every write (quota), the Notification constructor throws, the
\* permission prompt rejects
Faults == {"unreadable", "full", "display", "prompt"}

\* localStorage.getItem throws: in a session whose storage cannot be accessed
\* at all, and in a session in which only the reads fail ("getItem")
getItemThrows == fault \in {"unreadable", "getItem"}

\* localStorage.setItem throws
setItemThrows == fault \in {"unreadable", "full"}

---------------------------------------------------------------------------
(* history.ts: the history store *)

\* a record of the history; id is a ghost label naming the call that wrote it
\* (negative for the records already stored when the page is loaded)
HistoryRecord(key, data, time, id) ==
    [key |-> key, data |-> data, time |-> time, id |-> id]

\* faulty variant of getStoredHistory: a storage that cannot be read is read anyway
getStoredHistory_ReadsAnyway(ls) ==
    IF ~HasItem(ls, STORAGE_KEY_HISTORY) THEN <<>>
    ELSE IF JSONparseThrows(getItem(ls, STORAGE_KEY_HISTORY)) THEN <<>>
    ELSE JSONparse(getItem(ls, STORAGE_KEY_HISTORY))

\* try { stored ? JSON.parse(stored) : [] } catch { [] }
getStoredHistory(ls) ==
    IF getItemThrows THEN <<>>
    ELSE IF ~HasItem(ls, STORAGE_KEY_HISTORY) THEN <<>>
    ELSE IF JSONparseThrows(getItem(ls, STORAGE_KEY_HISTORY)) THEN <<>>
    ELSE JSONparse(getItem(ls, STORAGE_KEY_HISTORY))

TimesOf(history) == {history[i].time : i \in DOMAIN history}

MinOf(S) == CHOOSE m \in S : \A x \in S : m <= x

MaxOf(S) == CHOOSE m \in S : \A x \in S : m >= x

\* Array.prototype.sort with (a, b) => a.time - b.time: stable, ascending by time
RECURSIVE SortAscFrom(_, _)
SortAscFrom(history, times) ==
    IF times = {} THEN <<>>
    ELSE LET m == MinOf(times)
         IN SelectSeq(history, LAMBDA r : r.time = m) \o SortAscFrom(history, times \ {m})

SortByTimeAsc(history) == SortAscFrom(history, TimesOf(history))

\* Array.prototype.sort with (a, b) => b.time - a.time: stable, descending by time
RECURSIVE SortDescFrom(_, _)
SortDescFrom(history, times) ==
    IF times = {} THEN <<>>
    ELSE LET m == MaxOf(times)
         IN SelectSeq(history, LAMBDA r : r.time = m) \o SortDescFrom(history, times \ {m})

SortByTimeDesc(history) == SortDescFrom(history, TimesOf(history))

\* faulty variant of saveHistory: the cap keeps the head of the sorted list
saveHistory_KeepOldest(ls, history) ==
    LET capped == IF Len(history) > MAX_HISTORY_SIZE
                  THEN SubSeq(SortByTimeAsc(history), 1, MAX_HISTORY_SIZE)
                  ELSE history
    IN IF setItemThrows THEN ls
       ELSE setItem(ls, STORAGE_KEY_HISTORY, JSONstringify(capped))

\* faulty variant of saveHistory: a write that fails removes the stored history
saveHistory_WipesOnFail(ls, history) ==
    LET capped == IF Len(history) > MAX_HISTORY_SIZE
                  THEN SubSeq(SortByTimeAsc(history),
                              Len(history) - MAX_HISTORY_SIZE + 1, Len(history))
                  ELSE history
    IN IF setItemThrows THEN [k \in DOMAIN ls \ {STORAGE_KEY_HISTORY} |-> ls[k]]
       ELSE setItem(ls, STORAGE_KEY_HISTORY, JSONstringify(capped))

saveHistory(ls, history) ==
    LET capped == IF Len(history) > MAX_HISTORY_SIZE
                  THEN SubSeq(SortByTimeAsc(history),
                              Len(history) - MAX_HISTORY_SIZE + 1, Len(history))
                  ELSE history
    IN IF setItemThrows THEN ls
       ELSE setItem(ls, STORAGE_KEY_HISTORY, JSONstringify(capped))

\* faulty variant of addToHistory: the record is written whether or not the
\* payload has a banner
addToHistory_NoGuard(ls, key, data, time, id) ==
    saveHistory(ls, Append(getStoredHistory(ls), HistoryRecord(key, data, time, id)))

\* faulty variant of addToHistory: the record keeps the banner only
addToHistory_BannerOnly(ls, key, data, time, id) ==
    IF ~HasFacet(data, "banner") THEN ls
    ELSE saveHistory(ls, Append(getStoredHistory(ls),
                                HistoryRecord(key, ("banner" :> data["banner"]), time, id)))

\* faulty variant of addToHistory: the new record takes the place of the stored
\* records of its key
addToHistory_ReplacesKey(ls, key, data, time, id) ==
    IF ~HasFacet(data, "banner") THEN ls
    ELSE saveHistory(ls, Append(SelectSeq(getStoredHistory(ls), LAMBDA r : r.key # key),
                                HistoryRecord(key, data, time, id)))

\* faulty variant of addToHistory: nothing is written when the stored history
\* cannot be read or parsed
addToHistory_KeepsUnreadable(ls, key, data, time, id) ==
    IF ~HasFacet(data, "banner") THEN ls
    ELSE IF getItemThrows
            \/ (HasItem(ls, STORAGE_KEY_HISTORY)
                  /\ JSONparseThrows(getItem(ls, STORAGE_KEY_HISTORY)))
    THEN ls
    ELSE saveHistory(ls, Append(getStoredHistory(ls), HistoryRecord(key, data, time, id)))

\* addToHistory(key, data) at clock value time; the new localStorage
addToHistory(ls, key, data, time, id) ==
    IF ~HasFacet(data, "banner") THEN ls
    ELSE saveHistory(ls, Append(getStoredHistory(ls), HistoryRecord(key, data, time, id)))

\* the record addToHistory writes, if it writes one
AddedRecords(key, data, time, id) ==
    IF HasFacet(data, "banner") /\ ~setItemThrows
    THEN {HistoryRecord(key, data, time, id)}
    ELSE {}

\* faulty variant of getNotificationHistory: > in place of >=
getNotificationHistory_Strict(ls, fromTime) ==
    LET sorted == SortByTimeDesc(getStoredHistory(ls))
    IN IF fromTime # {}
       THEN SelectSeq(sorted, LAMBDA n : \A t \in fromTime : n.time > t)
       ELSE sorted

\* fromTime is {} for null and {t} for the number t
getNotificationHistory(ls, fromTime) ==
    LET sorted == SortByTimeDesc(getStoredHistory(ls))
    IN IF fromTime # {}
       THEN SelectSeq(sorted, LAMBDA n : \A t \in fromTime : n.time >= t)
       ELSE sorted

\* try { timestamp ? parseInt(timestamp, 10) : 0 } catch { 0 }
getLastReadTimestamp(ls) ==
    IF getItemThrows THEN 0
    ELSE IF HasItem(ls, STORAGE_KEY_LAST_READ) /\ getItem(ls, STORAGE_KEY_LAST_READ) # <<>>
    THEN parseInt(getItem(ls, STORAGE_KEY_LAST_READ))
    ELSE 0

\* faulty variant of UnreadSince: >= in place of >
UnreadSince_Geq(ls, lastRead) ==
    Len(SelectSeq(getNotificationHistory(ls, {}), LAMBDA n : n.time >= lastRead))

\* getUnreadNotificationCount after its first await: the history is read and
\* filtered against the cursor value read before the await
UnreadSince(ls, lastRead) ==
    Len(SelectSeq(getNotificationHistory(ls, {}), LAMBDA n : n.time > lastRead))

getUnreadNotificationCount(ls) == UnreadSince(ls, getLastReadTimestamp(ls))

---------------------------------------------------------------------------
(* index.ts: display, scheduler map, permission gate *)

\* showBrowserNotification(key, data): the display calls after it; id is a ghost
\* label naming the push call whose notification is displayed
showBrowserNotification(displays, key, data, id) ==
    IF ~HasFacet(data, "toast") THEN displays
    ELSE Append(displays, [tag |-> key, toast |-> data["toast"], id |-> id])

\* new Notification(...) throws: only reached when the payload has a toast
showBrowserNotificationThrows(data) == fault = "display" /\ HasFacet(data, "toast")

\* faulty variant of SaveOption: the save option is ignored
SaveOption_Always(opts) == TRUE

\* const save = opts.save !== false
SaveOption(opts) == ~("save" \in DOMAIN opts /\ opts["save"] = FALSE)

\* faulty variant of ShowImmediately: only a missing time is immediate
ShowImmediately_MissingOnly(opts, clock) == "time" \notin DOMAIN opts

\* faulty variant of ShowImmediately: the time option is ignored
ShowImmediately_Always(opts, clock) == TRUE

\* !opts.time || opts.time <= Date.now()
ShowImmediately(opts, clock) ==
    \/ "time" \notin DOMAIN opts
    \/ opts["time"] = 0
    \/ opts["time"] <= clock

\* Map.delete
MapDelete(map, key) == [k \in DOMAIN map \ {key} |-> map[k]]

\* Map.set
MapSet(map, key, value) == [k \in DOMAIN map \cup {key} |-> IF k = key THEN value ELSE map[k]]

\* clearTimeout(timeoutId)
clearTimeout(armed, timeoutId) == {t \in armed : t.timeoutId # timeoutId}

\* faulty variant of clearNotification: the entry is deleted and its timer left armed
clearNotification_NoClearTimeout(map, armed, key) ==
    IF key \in DOMAIN map
    THEN [map |-> MapDelete(map, key), timers |-> armed]
    ELSE [map |-> map, timers |-> armed]

\* faulty variant of clearNotification: the timer is disarmed and the entry kept
clearNotification_NoDelete(map, armed, key) ==
    IF key \in DOMAIN map
    THEN [map |-> map, timers |-> clearTimeout(armed, map[key].timeoutId)]
    ELSE [map |-> map, timers |-> armed]

\* faulty variant of clearNotification: every pending entry is cancelled
clearNotification_All(map, armed, key) ==
    IF key \in DOMAIN map
    THEN [map |-> <<>>,
          timers |-> {t \in armed : \A k \in DOMAIN map : map[k].timeoutId # t.timeoutId}]
    ELSE [map |-> map, timers |-> armed]

\* clearNotification(key): the pending map and the armed timers after it
clearNotification(map, armed, key) ==
    IF key \in DOMAIN map
    THEN [map |-> MapDelete(map, key), timers |-> clearTimeout(armed, map[key].timeoutId)]
    ELSE [map |-> map, timers |-> armed]

\* faulty variant of requestPermission: a denied permission is asked for again
requestPermission_Nag(isSupported, perm) ==
    IF ~isSupported THEN "false"
    ELSE IF perm = "granted" THEN "true"
    ELSE "prompt"

\* requestPermission() up to its await: "true", "false", or "prompt" when it
\* awaits Notification.requestPermission()
requestPermission(isSupported, perm) ==
    IF ~isSupported THEN "false"
    ELSE IF perm = "granted" THEN "true"
    ELSE IF perm # "denied" THEN "prompt"
    ELSE "false"

\* return permission === 'granted'
PromptResult(answer) == answer = "granted"

\* faulty variant of HookCatch: the hook operation has no catch, the error
\* reaches its caller
HookCatch_Rethrow(errs, c) == errs \cup {[where |-> "caller", id |-> c]}

\* an error thrown inside call c reaches the catch of the hook operation, which
\* logs it: catch (error) { console.error(...) }
HookCatch(errs, c) == errs \cup {[where |-> "hook", id |-> c]}

\* an error thrown inside the callback of timer id: no caller, no catch
TimerThrow(errs, id) == errs \cup {[where |-> "timer", id |-> id]}

---------------------------------------------------------------------------
(* The calls of the hook operations *)

CallIds == 1..MaxCalls

IdleCall ==
    [op |-> "", pc |-> "idle", key |-> <<"", 0>>, data |-> <<>>, opts |-> <<>>,
     hasPermission |-> FALSE, prompts |-> 0, permSeen |-> "", answer |-> "",
     lastRead |-> 0, startedAt |-> 0, endedAt |-> 0]

DoneCall == [IdleCall EXCEPT !.pc = "done"]

\* no call is between its start and its end: the caller awaits every call
Quiet == \A c \in CallIds : calls[c].pc \in {"idle", "done"}

\* some call has a continuation queued as a microtask; timers and prompt
\* answers are macrotasks and run only when no microtask is queued
MicrotaskPending ==
    \E c \in CallIds : calls[c].pc \in {"afterClear", "afterPerm", "markCount", "refresh"}

CanStart(c) ==
    /\ c = nextCall
    /\ c \in CallIds
    /\ ~snapshot.isLoading

ArmedIds(armed) == {t.timeoutId : t \in armed}

\* the entry recorded in the map under key, if any
EntriesOf(map, key) == IF key \in DOMAIN map THEN {map[key]} ELSE {}

---------------------------------------------------------------------------
(* useNotifications: the snapshot *)

\* { ...banner, time } of a stored record
FlattenRecord(n) ==
    IF HasFacet(n.data, "banner")
    THEN ("time" :> n.time) @@ n.data["banner"]
    ELSE ("time" :> n.time)

\* faulty variant of refresh: the history is listed without the window boundary
refresh_WholeStore(ls, snap, range) ==
    [snap EXCEPT
        !.history = LET historyData == getNotificationHistory(ls, {})
                    IN  [i \in DOMAIN historyData |-> FlattenRecord(historyData[i])],
        !.unreadCount = getUnreadNotificationCount(ls),
        !.lastReadTimestamp = getLastReadTimestamp(ls)]

\* faulty variant of refresh: every refresh shows the loading state again
refresh_Loading(ls, snap, range) ==
    [snap EXCEPT
        !.history = LET historyData == getNotificationHistory(ls, {range})
                    IN  [i \in DOMAIN historyData |-> FlattenRecord(historyData[i])],
        !.unreadCount = getUnreadNotificationCount(ls),
        !.lastReadTimestamp = getLastReadTimestamp(ls),
        !.isLoading = TRUE]

\* the state set by refresh()
refresh(ls, snap, range) ==
    [snap EXCEPT
        !.history = LET historyData == getNotificationHistory(ls, {range})
                    IN  [i \in DOMAIN historyData |-> FlattenRecord(historyData[i])],
        !.unreadCount = getUnreadNotificationCount(ls),
        !.lastReadTimestamp = getLastReadTimestamp(ls)]

newNotifications(snap) ==
    SelectSeq(snap.history, LAMBDA n : n["time"] > snap.lastReadTimestamp)

oldNotifications(snap) ==
    SelectSeq(snap.history, LAMBDA n : n["time"] <= snap.lastReadTimestamp)

---------------------------------------------------------------------------
(* Initial states *)

\* a history left in localStorage by earlier sessions: full, oldest records first,
\* the older half outside the hook's window
StoredBefore ==
    [i \in 1..MAX_HISTORY_SIZE |->
        HistoryRecord(<<"k", 1>>, BannerOnly,
                      IF 2 * i <= MAX_HISTORY_SIZE THEN 0 ELSE WindowDays, 0 - i)]

SetOf(s) == {s[i] : i \in DOMAIN s}

Init ==
    /\ now = WindowDays + 1
    /\ \E platform \in {"unsupported", "default", "granted", "denied"} :
          /\ supported = (platform # "unsupported")
          /\ permission = (IF platform = "unsupported" THEN "denied" ELSE platform)
    /\ \E stored \in {<<>>, StoredBefore} :
          /\ localStorage = (IF stored = <<>> THEN <<>>
                             ELSE (STORAGE_KEY_HISTORY :> JSONstringify(stored)))
          /\ appended = SetOf(stored)
    /\ scheduledTimeouts = <<>>
    /\ timers = {}
    /\ calls = [c \in CallIds |-> IdleCall]
    /\ nextCall = 1
    /\ shown = <<>>
    /\ events = <<>>
    /\ snapshot = [history |-> <<>>, unreadCount |-> 0, isLoading |-> TRUE,
                   lastReadTimestamp |-> 0]
    /\ rangeTimestamp = now - WindowDays
    /\ fired = {}
    /\ cancelled = {}
    /\ fault = "none"
    /\ errors = {}

\* the sessions with a fault: a fault of the platform with a history left by
\* earlier sessions, or a healthy platform with a history text that does not parse
FaultySessions ==
    {[fault |-> f, stored |-> JSONstringify(StoredBefore)] : f \in Faults}
        \cup {[fault |-> "none", stored |-> CorruptText]}

InitFault ==
    /\ now = WindowDays + 1
    /\ \E platform \in {"unsupported", "default"} :
          /\ supported = (platform # "unsupported")
          /\ permission = (IF platform = "unsupported" THEN "denied" ELSE platform)
    /\ \E session \in FaultySessions :
          /\ fault = session.fault
          /\ localStorage = (STORAGE_KEY_HISTORY :> session.stored)
          /\ appended = (IF session.stored = CorruptText THEN {} ELSE SetOf(StoredBefore))
    /\ scheduledTimeouts = <<>>
    /\ timers = {}
    /\ calls = [c \in CallIds |-> IdleCall]
    /\ nextCall = 1
    /\ shown = <<>>
    /\ events = <<>>
    /\ snapshot = [history |-> <<>>, unreadCount |-> 0, isLoading |-> TRUE,
                   lastReadTimestamp |-> 0]
    /\ rangeTimestamp = now - WindowDays
    /\ fired = {}
    /\ cancelled = {}
    /\ errors = {}

---------------------------------------------------------------------------
(* Environment *)

\* the clock advances; a run of queued continuations takes no time
Tick ==
    /\ now < MaxTime
    /\ ~MicrotaskPending
    /\ now' = now + 1
    /\ UNCHANGED <<supported, fault, errors, permission, localStorage, scheduledTimeouts, timers,
                   calls, nextCall, shown, events, snapshot, rangeTimestamp,
                   appended, fired, cancelled>>

\* the user withdraws the permission in the browser's site settings:
\* Notification.permission reads 'denied' from then on
PermissionRevoked ==
    /\ supported
    /\ permission = "granted"
    /\ ~MicrotaskPending
    /\ permission' = "denied"
    /\ UNCHANGED <<now, supported, fault, errors, localStorage, scheduledTimeouts, timers,
                   calls, nextCall, shown, events, snapshot, rangeTimestamp,
                   appended, fired, cancelled>>

\* useEffect: refresh().finally(() => setIsLoading(false))
InitialRefresh ==
    /\ snapshot.isLoading
    /\ snapshot' = [refresh(localStorage, snapshot, rangeTimestamp) EXCEPT !.isLoading = FALSE]
    /\ UNCHANGED <<now, supported, fault, errors, permission, localStorage, scheduledTimeouts, timers,
                   calls, nextCall, shown, events, rangeTimestamp,
                   appended, fired, cancelled>>

---------------------------------------------------------------------------
(* pushNotification, step by step *)

\* faulty variant of pushNotificationStart: the pending entry of key is left alone
pushNotificationStart_NoClear(c, op, key, data, opts) ==
    /\ calls' = [calls EXCEPT ![c] =
                    [IdleCall EXCEPT !.op = op, !.pc = "afterClear", !.key = key,
                                     !.data = data, !.opts = opts, !.startedAt = now]]
    /\ nextCall' = c + 1
    /\ UNCHANGED <<now, supported, fault, errors, permission, localStorage, shown, events,
                   snapshot, rangeTimestamp, appended, fired, scheduledTimeouts, timers,
                   cancelled>>

\* pushNotification up to its first await: opts, save, await clearNotification(key)
pushNotificationStart(c, op, key, data, opts) ==
    LET cleared == clearNotification(scheduledTimeouts, timers, key)
    IN /\ scheduledTimeouts' = cleared.map
       /\ timers' = cleared.timers
       /\ cancelled' = cancelled \cup EntriesOf(scheduledTimeouts, key)
       /\ calls' = [calls EXCEPT ![c] =
                       [IdleCall EXCEPT !.op = op, !.pc = "afterClear", !.key = key,
                                        !.data = data, !.opts = opts, !.startedAt = now]]
       /\ nextCall' = c + 1
       /\ UNCHANGED <<now, supported, fault, errors, permission, localStorage, shown, events,
                      snapshot, rangeTimestamp, appended, fired>>

\* the hook's push(key, data, options)
Push(c, key, data, opts) ==
    /\ CanStart(c)
    /\ pushNotificationStart(c, "push", key, data, opts)

\* the hook's schedule(title, body, delayMs, action): scheduleNotification builds
\* the key, the payload and the options and calls pushNotification
Schedule(c, title, body, delayMs, action) ==
    /\ CanStart(c)
    /\ pushNotificationStart(c, "schedule", <<"scheduled-", now>>,
                             FullPayload(title, body, action),
                             ("save" :> TRUE) @@ ("time" :> now + delayMs))

\* const hasPermission = await requestPermission(), up to the await inside it
RequestPermission(c) ==
    /\ calls[c].pc = "afterClear"
    /\ LET outcome == requestPermission(supported, permission)
           seen == IF supported THEN permission ELSE "unsupported"
       IN calls' = [calls EXCEPT ![c] =
                       IF outcome = "prompt"
                       THEN [@ EXCEPT !.pc = "prompting", !.prompts = @ + 1, !.permSeen = seen]
                       ELSE [@ EXCEPT !.pc = "afterPerm", !.permSeen = seen,
                                      !.hasPermission = (outcome = "true")]]
    /\ UNCHANGED <<now, supported, fault, errors, permission, localStorage, scheduledTimeouts, timers,
                   nextCall, shown, events, snapshot, rangeTimestamp,
                   appended, fired, cancelled>>

\* the user answers the prompt of Notification.requestPermission(); a prompt that
\* another call's prompt has already settled resolves to the settled permission
PromptAnswered(c, answer) ==
    /\ calls[c].pc = "prompting"
    /\ ~MicrotaskPending
    /\ permission # "default" => answer = permission
    /\ IF fault = "prompt"
       THEN \* the promise rejects: pushNotification throws, the hook catches
            /\ permission' = permission
            /\ calls' = [calls EXCEPT ![c] = DoneCall]
            /\ errors' = HookCatch(errors, c)
       ELSE /\ permission' = answer
            /\ calls' = [calls EXCEPT ![c] =
                            [@ EXCEPT !.pc = "afterPerm", !.answer = answer,
                                      !.hasPermission = PromptResult(answer)]]
            /\ errors' = errors
    /\ UNCHANGED <<now, supported, fault, localStorage, scheduledTimeouts, timers,
                   nextCall, shown, events, snapshot, rangeTimestamp,
                   appended, fired, cancelled>>

\* the timer armed by push call c, with what its callback captured
NewTimer(c) ==
    [timeoutId |-> c, key |-> calls[c].key, data |-> calls[c].data,
     save |-> SaveOption(calls[c].opts), fireAt |-> calls[c].opts["time"]]

\* the entry stored in scheduledTimeouts by push call c
NewEntry(c) ==
    [timeoutId |-> c, key |-> calls[c].key, data |-> calls[c].data,
     time |-> calls[c].opts["time"], save |-> SaveOption(calls[c].opts)]

\* faulty variant of pushDenied: without permission nothing is saved
pushDenied_NoSave(c) ==
    UNCHANGED <<localStorage, appended, shown, timers, scheduledTimeouts>>

\* if (!hasPermission) { if (save) addToHistory(key, data); return; }
pushDenied(c) ==
    LET key == calls[c].key
        data == calls[c].data
        save == SaveOption(calls[c].opts)
    IN /\ localStorage' = IF save THEN addToHistory(localStorage, key, data, now, c)
                          ELSE localStorage
       /\ appended' = IF save THEN appended \cup AddedRecords(key, data, now, c)
                      ELSE appended
       /\ UNCHANGED <<shown, timers, scheduledTimeouts>>

\* showBrowserNotification(key, data); if (save) addToHistory(key, data)
pushImmediate(c) ==
    LET key == calls[c].key
        data == calls[c].data
        save == SaveOption(calls[c].opts)
    IN IF showBrowserNotificationThrows(data)
       THEN UNCHANGED <<shown, localStorage, appended, timers, scheduledTimeouts>>
       ELSE /\ shown' = showBrowserNotification(shown, key, data, c)
            /\ localStorage' = IF save THEN addToHistory(localStorage, key, data, now, c)
                               ELSE localStorage
            /\ appended' = IF save THEN appended \cup AddedRecords(key, data, now, c)
                           ELSE appended
            /\ UNCHANGED <<timers, scheduledTimeouts>>

\* faulty variant of pushScheduled: the timer is armed and not recorded in the map
pushScheduled_NoEntry(c) ==
    /\ timers' = timers \cup {NewTimer(c)}
    /\ UNCHANGED <<scheduledTimeouts, shown, localStorage, appended>>

\* const timeoutId = setTimeout(..., delay); scheduledTimeouts.set(key, {...})
pushScheduled(c) ==
    /\ timers' = timers \cup {NewTimer(c)}
    /\ scheduledTimeouts' = MapSet(scheduledTimeouts, calls[c].key, NewEntry(c))
    /\ UNCHANGED <<shown, localStorage, appended>>

\* the immediate branch of call c throws at its display
PushThrows(c) ==
    /\ calls[c].hasPermission
    /\ ShowImmediately(calls[c].opts, now)
    /\ showBrowserNotificationThrows(calls[c].data)

\* pushNotification after the permission check: the denied branch, the
\* immediate branch, or the scheduling branch
PushContinue(c) ==
    /\ calls[c].pc = "afterPerm"
    /\ IF ~calls[c].hasPermission THEN pushDenied(c)
       ELSE IF ShowImmediately(calls[c].opts, now) THEN pushImmediate(c)
       ELSE pushScheduled(c)
    /\ IF PushThrows(c)
       THEN \* the error leaves pushNotification; the hook catches it and skips refresh
            /\ calls' = [calls EXCEPT ![c] = DoneCall]
            /\ errors' = HookCatch(errors, c)
       ELSE /\ calls' = [calls EXCEPT ![c] = [@ EXCEPT !.pc = "refresh", !.endedAt = now]]
            /\ errors' = errors
    /\ UNCHANGED <<now, supported, fault, permission, nextCall, events, snapshot,
                   rangeTimestamp, fired, cancelled>>

\* faulty variant of TimerFire: the callback leaves its entry in the map
TimerFire_NoDelete(t) ==
    /\ t \in timers
    /\ now >= t.fireAt
    /\ ~MicrotaskPending
    /\ IF showBrowserNotificationThrows(t.data)
       THEN /\ errors' = TimerThrow(errors, t.timeoutId)
            /\ UNCHANGED <<shown, localStorage, appended>>
       ELSE /\ shown' = showBrowserNotification(shown, t.key, t.data, t.timeoutId)
            /\ localStorage' = IF t.save
                               THEN addToHistory(localStorage, t.key, t.data, now, t.timeoutId)
                               ELSE localStorage
            /\ appended' = IF t.save
                           THEN appended \cup AddedRecords(t.key, t.data, now, t.timeoutId)
                           ELSE appended
            /\ errors' = errors
    /\ timers' = timers \ {t}
    /\ fired' = fired \cup {t}
    /\ UNCHANGED <<now, supported, fault, permission, calls, nextCall, events, snapshot,
                   rangeTimestamp, cancelled, scheduledTimeouts>>

\* faulty variant of TimerFire: the callback runs only after its time has passed
TimerFire_Late(t) ==
    /\ t \in timers
    /\ now > t.fireAt
    /\ ~MicrotaskPending
    /\ IF showBrowserNotificationThrows(t.data)
       THEN /\ errors' = TimerThrow(errors, t.timeoutId)
            /\ UNCHANGED <<shown, localStorage, appended, scheduledTimeouts>>
       ELSE /\ shown' = showBrowserNotification(shown, t.key, t.data, t.timeoutId)
            /\ localStorage' = IF t.save
                               THEN addToHistory(localStorage, t.key, t.data, now, t.timeoutId)
                               ELSE localStorage
            /\ appended' = IF t.save
                           THEN appended \cup AddedRecords(t.key, t.data, now, t.timeoutId)
                           ELSE appended
            /\ scheduledTimeouts' = MapDelete(scheduledTimeouts, t.key)
            /\ errors' = errors
    /\ timers' = timers \ {t}
    /\ fired' = fired \cup {t}
    /\ UNCHANGED <<now, supported, fault, permission, calls, nextCall, events, snapshot,
                   rangeTimestamp, cancelled>>

\* faulty variant of TimerFire: the record is stamped with the requested time
TimerFire_RequestedTime(t) ==
    /\ t \in timers
    /\ now >= t.fireAt
    /\ ~MicrotaskPending
    /\ IF showBrowserNotificationThrows(t.data)
       THEN \* the callback ends at the throw: nothing saved, the entry stays in the map
            /\ errors' = TimerThrow(errors, t.timeoutId)
            /\ UNCHANGED <<shown, localStorage, appended, scheduledTimeouts>>
       ELSE /\ shown' = showBrowserNotification(shown, t.key, t.data, t.timeoutId)
            /\ localStorage' = IF t.save
                               THEN addToHistory(localStorage, t.key, t.data, t.fireAt, t.timeoutId)
                               ELSE localStorage
            /\ appended' = IF t.save
                           THEN appended \cup AddedRecords(t.key, t.data, t.fireAt, t.timeoutId)
                           ELSE appended
            /\ scheduledTimeouts' = MapDelete(scheduledTimeouts, t.key)
            /\ errors' = errors
    /\ timers' = timers \ {t}
    /\ fired' = fired \cup {t}
    /\ UNCHANGED <<now, supported, fault, permission, calls, nextCall, events, snapshot,
                   rangeTimestamp, cancelled>>

\* the callback of setTimeout runs: display, history append, scheduledTimeouts.delete(key)
TimerFire(t) ==
    /\ t \in timers
    /\ now >= t.fireAt
    /\ ~MicrotaskPending
    /\ IF showBrowserNotificationThrows(t.data)
       THEN \* the callback ends at the throw: nothing saved, the entry stays in the map
            /\ errors' = TimerThrow(errors, t.timeoutId)
            /\ UNCHANGED <<shown, localStorage, appended, scheduledTimeouts>>
       ELSE /\ shown' = showBrowserNotification(shown, t.key, t.data, t.timeoutId)
            /\ localStorage' = IF t.save
                               THEN addToHistory(localStorage, t.key, t.data, now, t.timeoutId)
                               ELSE localStorage
            /\ appended' = IF t.save
                           THEN appended \cup AddedRecords(t.key, t.data, now, t.timeoutId)
                           ELSE appended
            /\ scheduledTimeouts' = MapDelete(scheduledTimeouts, t.key)
            /\ errors' = errors
    /\ timers' = timers \ {t}
    /\ fired' = fired \cup {t}
    /\ UNCHANGED <<now, supported, fault, permission, calls, nextCall, events, snapshot,
                   rangeTimestamp, cancelled>>

---------------------------------------------------------------------------
(* clear, markAsRead, refresh *)

\* the hook's clear(key): await clearNotification(key)
Clear(c, key) ==
    LET cleared == clearNotification(scheduledTimeouts, timers, key)
    IN /\ CanStart(c)
       /\ scheduledTimeouts' = cleared.map
       /\ timers' = cleared.timers
       /\ cancelled' = cancelled \cup EntriesOf(scheduledTimeouts, key)
       /\ calls' = [calls EXCEPT ![c] =
                       [IdleCall EXCEPT !.op = "clear", !.pc = "refresh", !.key = key,
                                        !.startedAt = now, !.endedAt = now]]
       /\ nextCall' = c + 1
       /\ UNCHANGED <<now, supported, fault, errors, permission, localStorage, shown, events,
                      snapshot, rangeTimestamp, appended, fired>>

\* faulty variant of setLastReadTimestamp's write: the cursor is stored one unit early
StoreLastRead_Early(ls, timestamp) ==
    IF setItemThrows THEN ls
    ELSE setItem(ls, STORAGE_KEY_LAST_READ, NumberToString(timestamp - 1))

\* localStorage.setItem(STORAGE_KEY_LAST_READ, timestamp.toString())
StoreLastRead(ls, timestamp) ==
    IF setItemThrows THEN ls
    ELSE setItem(ls, STORAGE_KEY_LAST_READ, NumberToString(timestamp))

\* the hook's markAsRead(): markAllNotificationsAsRead() calls
\* setLastReadTimestamp(Date.now()), which stores the cursor and reads it back
\* at the start of getUnreadNotificationCount()
MarkAsRead(c) ==
    /\ CanStart(c)
    /\ localStorage' = StoreLastRead(localStorage, now)
    /\ calls' = [calls EXCEPT ![c] =
                    [IdleCall EXCEPT !.op = "markAsRead", !.pc = "markCount",
                                     !.lastRead = getLastReadTimestamp(localStorage'),
                                     !.startedAt = now]]
    /\ nextCall' = c + 1
    /\ UNCHANGED <<now, supported, fault, errors, permission, scheduledTimeouts, timers, shown, events,
                   snapshot, rangeTimestamp, appended, fired, cancelled>>

\* setLastReadTimestamp dispatches 'notification-badge-update' with the count,
\* then markAsRead runs setUnreadCount(0)
MarkContinue(c) ==
    /\ calls[c].pc = "markCount"
    /\ events' = IF setItemThrows
                 THEN events   \* setItem threw: the catch of setLastReadTimestamp, no event
                 ELSE Append(events, [count |-> UnreadSince(localStorage, calls[c].lastRead)])
    /\ snapshot' = [snapshot EXCEPT !.unreadCount = 0]
    /\ calls' = [calls EXCEPT ![c] = [@ EXCEPT !.pc = "refresh", !.endedAt = now]]
    /\ UNCHANGED <<now, supported, fault, errors, permission, localStorage, scheduledTimeouts, timers,
                   nextCall, shown, rangeTimestamp, appended, fired, cancelled>>

\* setLastReadTimestamp(timestamp) called directly, up to the first await of
\* getUnreadNotificationCount(): the cursor is stored and read back
SetLastReadTimestamp(c, timestamp) ==
    /\ CanStart(c)
    /\ localStorage' = StoreLastRead(localStorage, timestamp)
    /\ calls' = [calls EXCEPT ![c] =
                    [IdleCall EXCEPT !.op = "setLastReadTimestamp", !.pc = "markCount",
                                     !.opts = ("timestamp" :> timestamp),
                                     !.lastRead = getLastReadTimestamp(localStorage'),
                                     !.startedAt = now]]
    /\ nextCall' = c + 1
    /\ UNCHANGED <<now, supported, fault, errors, permission, scheduledTimeouts, timers, shown, events,
                   snapshot, rangeTimestamp, appended, fired, cancelled>>

\* setLastReadTimestamp after the count: window.dispatchEvent(new CustomEvent(
\* 'notification-badge-update', { detail: { count } })), or its catch
SetLastReadContinue(c) ==
    /\ calls[c].pc = "markCount"
    /\ calls[c].op = "setLastReadTimestamp"
    /\ events' = IF setItemThrows
                 THEN events   \* setItem threw: the catch of setLastReadTimestamp, no event
                 ELSE Append(events, [count |-> UnreadSince(localStorage, calls[c].lastRead)])
    /\ calls' = [calls EXCEPT ![c] = DoneCall]
    /\ UNCHANGED <<now, supported, fault, errors, permission, localStorage, scheduledTimeouts, timers,
                   nextCall, shown, snapshot, rangeTimestamp, appended, fired, cancelled>>

\* await refresh() at the end of push, clear, schedule and markAsRead
RefreshAfter(c) ==
    /\ calls[c].pc = "refresh"
    /\ snapshot' = refresh(localStorage, snapshot, rangeTimestamp)
    /\ calls' = [calls EXCEPT ![c] = DoneCall]
    /\ UNCHANGED <<now, supported, fault, errors, permission, localStorage, scheduledTimeouts, timers,
                   nextCall, shown, events, rangeTimestamp, appended, fired, cancelled>>

\* the hook's refresh()
Refresh(c) ==
    /\ CanStart(c)
    /\ snapshot' = refresh(localStorage, snapshot, rangeTimestamp)
    /\ calls' = [calls EXCEPT ![c] = DoneCall]
    /\ nextCall' = c + 1
    /\ UNCHANGED <<now, supported, fault, errors, permission, localStorage, scheduledTimeouts, timers,
                   shown, events, rangeTimestamp, appended, fired, cancelled>>

---------------------------------------------------------------------------
(* Specifications *)

Delays == {0, 1}

Answers == {"granted", "denied", "default"}

\* the steps that continue a call or come from the environment
Step ==
    \/ Tick
    \/ InitialRefresh
    \/ \E c \in CallIds : RequestPermission(c)
    \/ \E c \in CallIds, answer \in Answers : PromptAnswered(c, answer)
    \/ \E c \in CallIds : PushContinue(c)
    \/ \E t \in timers : TimerFire(t)
    \/ \E c \in CallIds : MarkContinue(c)
    \/ \E c \in CallIds : RefreshAfter(c)

\* every call is awaited: a call starts only when no other call is in progress
Next ==
    \/ Step
    \/ Quiet /\ \E key \in CallerKeys, data \in Payloads, opts \in OptionsAt(now) :
                    Push(nextCall, key, data, opts)
    \/ Quiet /\ \E delayMs \in Delays : Schedule(nextCall, "T", "B", delayMs, Null)
    \/ Quiet /\ \E key \in CallerKeys : Clear(nextCall, key)
    \/ Quiet /\ MarkAsRead(nextCall)
    \/ Quiet /\ Refresh(nextCall)

Spec == Init /\ [][Next]_vars

\* calls are not awaited: a call may start while others are in progress
NextOverlap ==
    \/ Step
    \/ \E key \in CallerKeys, data \in Payloads, opts \in OptionsAt(now) :
          Push(nextCall, key, data, opts)
    \/ \E delayMs \in Delays : Schedule(nextCall, "T", "B", delayMs, Null)
    \/ \E key \in CallerKeys : Clear(nextCall, key)
    \/ MarkAsRead(nextCall)
    \/ Refresh(nextCall)

SpecOverlap == Init /\ [][NextOverlap]_vars

\* a session on a platform with a notifier that has not denied the permission,
\* starting with an empty store
InitGrantable ==
    /\ Init
    /\ supported
    /\ permission \in {"default", "granted"}
    /\ localStorage = <<>>

\* awaited calls, and the user may withdraw the permission at any moment
NextRevoke ==
    \/ Next
    \/ PermissionRevoked

SpecRevoke == InitGrantable /\ [][NextRevoke]_vars

\* the operations that write and read the two stores, permission granted:
\* immediate pushes, markAsRead and refresh, each awaited
InitStore ==
    /\ Init
    /\ supported
    /\ permission = "granted"

NextStore ==
    \/ Tick
    \/ InitialRefresh
    \/ \E c \in CallIds : RequestPermission(c)
    \/ \E c \in CallIds : PushContinue(c)
    \/ \E c \in CallIds : MarkContinue(c)
    \/ \E c \in CallIds : RefreshAfter(c)
    \/ Quiet /\ \E key \in CallerKeys, data \in Payloads,
                    opts \in {NoOptions, ("save" :> FALSE)} :
                    Push(nextCall, key, data, opts)
    \/ Quiet /\ MarkAsRead(nextCall)
    \/ Quiet /\ Refresh(nextCall)

SpecStore == InitStore /\ [][NextStore]_vars

\* sessions in which the stored history cannot be read (the reads throw, with
\* the writes accepted or refused) or cannot be parsed; permission granted
UnreadableSessions ==
    {[fault |-> f, stored |-> JSONstringify(StoredBefore)] : f \in {"getItem", "unreadable"}}
        \cup {[fault |-> "none", stored |-> CorruptText]}

InitUnreadable ==
    /\ now = WindowDays + 1
    /\ supported = TRUE
    /\ permission = "granted"
    /\ \E session \in UnreadableSessions :
          /\ fault = session.fault
          /\ localStorage = (STORAGE_KEY_HISTORY :> session.stored)
          /\ appended = (IF session.stored = CorruptText THEN {} ELSE SetOf(StoredBefore))
    /\ scheduledTimeouts = <<>>
    /\ timers = {}
    /\ calls = [c \in CallIds |-> IdleCall]
    /\ nextCall = 1
    /\ shown = <<>>
    /\ events = <<>>
    /\ snapshot = [history |-> <<>>, unreadCount |-> 0, isLoading |-> TRUE,
                   lastReadTimestamp |-> 0]
    /\ rangeTimestamp = now - WindowDays
    /\ fired = {}
    /\ cancelled = {}
    /\ errors = {}

SpecUnreadable == InitUnreadable /\ [][NextStore]_vars

\* awaited pushes of payloads that lack a facet, on every platform
NextFacets ==
    \/ Tick
    \/ InitialRefresh
    \/ \E c \in CallIds : RequestPermission(c)
    \/ \E c \in CallIds, answer \in Answers : PromptAnswered(c, answer)
    \/ \E c \in CallIds : PushContinue(c)
    \/ \E t \in timers : TimerFire(t)
    \/ \E c \in CallIds : RefreshAfter(c)
    \/ Quiet /\ \E key \in CallerKeys, data \in LackingPayloads, opts \in OptionsAt(now) :
                    Push(nextCall, key, data, opts)

SpecFacets == Init /\ [][NextFacets]_vars

\* awaited pushes under granted permission, for now or for one clock unit later
NextImmediate ==
    \/ Tick
    \/ InitialRefresh
    \/ \E c \in CallIds : RequestPermission(c)
    \/ \E c \in CallIds : PushContinue(c)
    \/ \E t \in timers : TimerFire(t)
    \/ \E c \in CallIds : RefreshAfter(c)
    \/ Quiet /\ \E key \in CallerKeys, data \in Payloads,
                    opts \in ImmediateOptionsAt(now) \cup {("time" :> now + 1)} :
                    Push(nextCall, key, data, opts)

SpecImmediate == InitStore /\ [][NextImmediate]_vars

\* the calls that schedule and cancel, awaited; a push or a schedule for later
\* is made only while its time is within the clock's range
NextLive ==
    \/ Tick
    \/ InitialRefresh
    \/ \E c \in CallIds : RequestPermission(c)
    \/ \E c \in CallIds, answer \in Answers : PromptAnswered(c, answer)
    \/ \E c \in CallIds : PushContinue(c)
    \/ \E t \in timers : TimerFire(t)
    \/ \E c \in CallIds : RefreshAfter(c)
    \/ Quiet /\ \E key \in CallerKeys, data \in Payloads, opts \in OptionsAt(now) :
                    /\ "time" \in DOMAIN opts => opts["time"] <= MaxTime
                    /\ Push(nextCall, key, data, opts)
    \/ Quiet /\ \E delayMs \in Delays :
                    /\ now + delayMs <= MaxTime
                    /\ Schedule(nextCall, "T", "B", delayMs, Null)
    \/ Quiet /\ \E key \in CallerKeys : Clear(nextCall, key)

\* the event loop: queued continuations run, the clock advances, and a timer
\* whose time has come runs its callback
Fairness ==
    /\ WF_vars(Tick)
    /\ WF_vars(InitialRefresh)
    /\ WF_vars(\E c \in CallIds : RequestPermission(c))
    /\ WF_vars(\E c \in CallIds : PushContinue(c))
    /\ WF_vars(\E c \in CallIds : RefreshAfter(c))
    /\ WF_vars(\E t \in timers : TimerFire(t))

SpecLive == InitGrantable /\ [][NextLive]_vars /\ Fairness

\* a session with the history of earlier sessions and permission granted, on a
\* storage that works, that refuses every write, or that cannot be accessed
InitCursor ==
    /\ now = WindowDays + 1
    /\ supported = TRUE
    /\ permission = "granted"
    /\ fault \in {"none", "full", "unreadable"}
    /\ localStorage = (STORAGE_KEY_HISTORY :> JSONstringify(StoredBefore))
    /\ appended = SetOf(StoredBefore)
    /\ scheduledTimeouts = <<>>
    /\ timers = {}
    /\ calls = [c \in CallIds |-> IdleCall]
    /\ nextCall = 1
    /\ shown = <<>>
    /\ events = <<>>
    /\ snapshot = [history |-> <<>>, unreadCount |-> 0, isLoading |-> TRUE,
                   lastReadTimestamp |-> 0]
    /\ rangeTimestamp = now - WindowDays
    /\ fired = {}
    /\ cancelled = {}
    /\ errors = {}

\* direct calls of setLastReadTimestamp with a timestamp up to the clock value,
\* and immediate pushes, each awaited
NextCursor ==
    \/ Tick
    \/ InitialRefresh
    \/ \E c \in CallIds : RequestPermission(c)
    \/ \E c \in CallIds : PushContinue(c)
    \/ \E c \in CallIds : RefreshAfter(c)
    \/ \E c \in CallIds : SetLastReadContinue(c)
    \/ Quiet /\ \E key \in CallerKeys : Push(nextCall, key, FullPayload("T", "B", Null), NoOptions)
    \/ Quiet /\ \E timestamp \in 0..now : SetLastReadTimestamp(nextCall, timestamp)

SpecCursor == InitCursor /\ [][NextCursor]_vars

\* pushes for later and clears that are not awaited: a call may start while
\* others are suspended
NextRace ==
    \/ Tick
    \/ InitialRefresh
    \/ \E c \in CallIds : RequestPermission(c)
    \/ \E c \in CallIds, answer \in Answers : PromptAnswered(c, answer)
    \/ \E c \in CallIds : PushContinue(c)
    \/ \E t \in timers : TimerFire(t)
    \/ \E c \in CallIds : RefreshAfter(c)
    \/ \E key \in CallerKeys, data \in Payloads :
          /\ now < MaxTime
          /\ Push(nextCall, key, data, ("time" :> now + 1))
    \/ \E key \in CallerKeys : Clear(nextCall, key)

\* overlapping pushes and clears under the event loop's fairness
SpecRace == InitGrantable /\ [][NextRace]_vars /\ Fairness

\* a session that starts at the clock value of the newest stored records,
\* with permission granted or denied
InitTimes ==
    /\ now = WindowDays
    /\ supported = TRUE
    /\ permission \in {"granted", "denied"}
    /\ fault = "none"
    /\ \E stored \in {<<>>, StoredBefore} :
          /\ localStorage = (IF stored = <<>> THEN <<>>
                             ELSE (STORAGE_KEY_HISTORY :> JSONstringify(stored)))
          /\ appended = SetOf(stored)
    /\ scheduledTimeouts = <<>>
    /\ timers = {}
    /\ calls = [c \in CallIds |-> IdleCall]
    /\ nextCall = 1
    /\ shown = <<>>
    /\ events = <<>>
    /\ snapshot = [history |-> <<>>, unreadCount |-> 0, isLoading |-> TRUE,
                   lastReadTimestamp |-> 0]
    /\ rangeTimestamp = now - WindowDays
    /\ fired = {}
    /\ cancelled = {}
    /\ errors = {}

\* awaited pushes with no time, a time already past and a time to come; a
\* timer fires at its time or later
NextTimes ==
    \/ Tick
    \/ InitialRefresh
    \/ \E c \in CallIds : RequestPermission(c)
    \/ \E c \in CallIds : PushContinue(c)
    \/ \E t \in timers : TimerFire(t)
    \/ \E c \in CallIds : RefreshAfter(c)
    \/ Quiet /\ \E key \in CallerKeys, data \in {FullPayload("T", "B", Null), BannerOnly},
                    opts \in {NoOptions, ("time" :> now - 1), ("time" :> now + 1)} :
                    Push(nextCall, key, data, opts)

SpecTimes == InitTimes /\ [][NextTimes]_vars

\* two keys of the caller
TwoKeys == {<<"k", 1>>, <<"k", 2>>}

\* a notification of the second key scheduled by a pushNotification call made
\* before the hook mounted: the pending map belongs to the module and outlives
\* the hooks that use it
PendingBefore ==
    [timeoutId |-> 0, key |-> <<"k", 2>>, data |-> FullPayload("T", "B", Null),
     time |-> WindowDays + 2, save |-> TRUE]

TimerBefore ==
    [timeoutId |-> 0, key |-> <<"k", 2>>, data |-> FullPayload("T", "B", Null),
     save |-> TRUE, fireAt |-> WindowDays + 2]

\* a session with permission granted and an empty store; the hook mounts with
\* nothing pending or with the earlier notification pending
InitKeys ==
    /\ now = WindowDays + 1
    /\ supported = TRUE
    /\ permission = "granted"
    /\ fault = "none"
    /\ localStorage = <<>>
    /\ appended = {}
    /\ \E pending \in BOOLEAN :
          /\ scheduledTimeouts = (IF pending THEN (<<"k", 2>> :> PendingBefore) ELSE <<>>)
          /\ timers = (IF pending THEN {TimerBefore} ELSE {})
    /\ calls = [c \in CallIds |-> IdleCall]
    /\ nextCall = 1
    /\ shown = <<>>
    /\ events = <<>>
    /\ snapshot = [history |-> <<>>, unreadCount |-> 0, isLoading |-> TRUE,
                   lastReadTimestamp |-> 0]
    /\ rangeTimestamp = now - WindowDays
    /\ fired = {}
    /\ cancelled = {}
    /\ errors = {}

\* pushes and clears of two keys, awaited or not, and the timers
NextKeys ==
    \/ Tick
    \/ InitialRefresh
    \/ \E c \in CallIds : RequestPermission(c)
    \/ \E c \in CallIds : PushContinue(c)
    \/ \E t \in timers : TimerFire(t)
    \/ \E c \in CallIds : RefreshAfter(c)
    \/ \E key \in TwoKeys, opts \in {NoOptions, ("time" :> now + 1)} :
          Push(nextCall, key, FullPayload("T", "B", Null), opts)
    \/ \E key \in TwoKeys : Clear(nextCall, key)

SpecKeys == InitKeys /\ [][NextKeys]_vars

\* a history left by earlier sessions in which nothing was ever marked as read:
\* two records older than the hook's window and two inside it
StoredAged ==
    [i \in 1..4 |->
        HistoryRecord(<<"k", 1>>, BannerOnly, IF i <= 2 THEN 1 ELSE WindowDays, 0 - i)]

\* a session that starts two clock units after the window's length, with the
\* aged history in the store, no cursor stored and permission granted
InitAged ==
    /\ now = WindowDays + 2
    /\ supported = TRUE
    /\ permission = "granted"
    /\ fault = "none"
    /\ localStorage = (STORAGE_KEY_HISTORY :> JSONstringify(StoredAged))
    /\ appended = SetOf(StoredAged)
    /\ scheduledTimeouts = <<>>
    /\ timers = {}
    /\ calls = [c \in CallIds |-> IdleCall]
    /\ nextCall = 1
    /\ shown = <<>>
    /\ events = <<>>
    /\ snapshot = [history |-> <<>>, unreadCount |-> 0, isLoading |-> TRUE,
                   lastReadTimestamp |-> 0]
    /\ rangeTimestamp = now - WindowDays
    /\ fired = {}
    /\ cancelled = {}
    /\ errors = {}

\* immediate pushes, markAsRead and refresh, each awaited, at one clock value
NextAged ==
    \/ InitialRefresh
    \/ \E c \in CallIds : RequestPermission(c)
    \/ \E c \in CallIds : PushContinue(c)
    \/ \E c \in CallIds : MarkContinue(c)
    \/ \E c \in CallIds : RefreshAfter(c)
    \/ Quiet /\ \E key \in CallerKeys, data \in Payloads,
                    opts \in {NoOptions, ("save" :> FALSE)} :
                    Push(nextCall, key, data, opts)
    \/ Quiet /\ MarkAsRead(nextCall)
    \/ Quiet /\ Refresh(nextCall)

SpecAged == InitAged /\ [][NextAged]_vars

\* awaited calls in a session with a fault
SpecFault == InitFault /\ [][Next]_vars

---------------------------------------------------------------------------
(* Vocabulary of the properties *)

StoredHistory == getStoredHistory(localStorage)

\* the records in the store and the records no longer in it
Retained == SetOf(StoredHistory)

Evicted == appended \ Retained

\* how many stored records were written by call id
RecordCountIn(ls, id) ==
    Cardinality({i \in DOMAIN getStoredHistory(ls) : getStoredHistory(ls)[i].id = id})

RecordCount(id) == RecordCountIn(localStorage, id)

RecordsOf(id) == {r \in Retained : r.id = id}

DisplaysOf(id) == {i \in DOMAIN shown : shown[i].id = id}

\* the stored cursor as a number: the number whose decimal text is stored, 0 if none
CursorOf(ls) ==
    IF HasItem(ls, STORAGE_KEY_LAST_READ)
    THEN CHOOSE n \in 0..(MaxTime + 1) : NumberToString(n) = ls[STORAGE_KEY_LAST_READ]
    ELSE 0

IsPush(c) == calls[c].op \in {"push", "schedule"}

\* call c has run pushNotification to its end and awaits its refresh
PushReturned(c) == IsPush(c) /\ calls[c].pc = "refresh"

\* call c is between the start and the end of pushNotification
PushInProgress(c) == IsPush(c) /\ calls[c].pc \in {"afterClear", "prompting", "afterPerm"}

TimersOfKey(key) == {t \in timers : t.key = key}

\* an entry taken out of the map by clearNotification never fires: its
\* notification is neither displayed nor appended
CancelledNeverFires ==
    \A e \in cancelled :
        /\ e.timeoutId \notin ArmedIds(fired)
        /\ DisplaysOf(e.timeoutId) = {}
        /\ \A r \in appended : r.id # e.timeoutId

---------------------------------------------------------------------------
\* C1: the stored history never holds more than MAX_HISTORY_SIZE records, and
\* once records have been evicted the store holds exactly MAX_HISTORY_SIZE
\* records, each written by addToHistory, and no evicted record is newer
\* (by time) than a retained one.
C1_CapacityKeepsNewest ==
    LET retained == Retained
        evicted == appended \ retained
    IN /\ Len(StoredHistory) <= MAX_HISTORY_SIZE
       /\ Cardinality(retained) = Len(StoredHistory)
       /\ retained \subseteq appended
       /\ evicted # {} =>
             /\ Len(StoredHistory) = MAX_HISTORY_SIZE
             /\ \A e \in evicted : \A r \in retained : e.time <= r.time

\* two appends to a full store: two records evicted, both older than the new ones
C1_Witness ==
    /\ Cardinality(Evicted) = 2
    /\ \E r \in Retained : r.id > 0 /\ \A e \in Evicted : e.time < r.time

---------------------------------------------------------------------------
\* C2: when calls are awaited, a push for a key finds no other timer armed
\* for that key once it has started (the entry pending before it is cancelled),
\* a push that schedules under granted permission leaves exactly one pending
\* entry and one armed timer for its key, its own, and a cancelled entry is
\* never displayed and never appended to the history.
C2_SecondPushReplacesFirst ==
    /\ \A c \in CallIds :
          PushInProgress(c) =>
             /\ TimersOfKey(calls[c].key) = {}
             /\ calls[c].key \notin DOMAIN scheduledTimeouts
    /\ \A c \in CallIds :
          (PushReturned(c) /\ calls[c].hasPermission
             /\ ~ShowImmediately(calls[c].opts, calls[c].endedAt)) =>
             /\ calls[c].key \in DOMAIN scheduledTimeouts
             /\ scheduledTimeouts[calls[c].key].timeoutId = c
             /\ ArmedIds(TimersOfKey(calls[c].key)) = {c}
    /\ CancelledNeverFires

\* the second push has replaced the first: the second's timer has fired, the
\* first's was cancelled and has not
C2_Witness ==
    /\ \E e \in cancelled : e.timeoutId = 1 /\ e.key = <<"k", 1>> /\ now >= e.time
    /\ \E t \in fired : t.timeoutId = 2 /\ t.key = <<"k", 1>>
    /\ RecordsOf(1) = {}
    /\ DisplaysOf(1) = {}

---------------------------------------------------------------------------
\* C3: every armed timer is the one recorded in the pending map under its key
\* (so there is at most one armed timer per key), also when push calls overlap.
C3_OneTimerPerKey ==
    \A t \in timers :
        /\ t.key \in DOMAIN scheduledTimeouts
        /\ scheduledTimeouts[t.key].timeoutId = t.timeoutId

---------------------------------------------------------------------------
\* C4: when calls are awaited, clear(key) leaves no timer armed and no pending
\* entry for key, and the entry it cancelled never fires afterwards: its
\* notification is never displayed and never appended, however late.
C4_ClearedNeverFires ==
    /\ \A c \in CallIds :
          (calls[c].op = "clear" /\ calls[c].pc = "refresh") =>
             /\ TimersOfKey(calls[c].key) = {}
             /\ calls[c].key \notin DOMAIN scheduledTimeouts
    /\ \A e \in cancelled :
          /\ \A t \in fired \cup timers : t.timeoutId # e.timeoutId
          /\ \A i \in DOMAIN shown : shown[i].id # e.timeoutId
          /\ \A r \in appended : r.id # e.timeoutId

\* clear has cancelled a saved, displayable entry whose fire time has come
C4_Witness ==
    \E c \in CallIds : \E e \in cancelled :
        /\ calls[c].op = "clear" /\ calls[c].pc = "refresh"
        /\ e.key = calls[c].key
        /\ e.save /\ HasFacet(e.data, "banner") /\ HasFacet(e.data, "toast")
        /\ now >= e.time
        /\ RecordsOf(e.timeoutId) = {}

---------------------------------------------------------------------------
\* C5: a clear(key) that starts after a timer of key has fired, with no timer
\* of key armed, changes neither the pending map, nor the timers, nor the
\* stored history, nor the displays; the record written by the fire is in the
\* store exactly once (unless evicted since).
ClearStarts(c) == calls[c].pc = "idle" /\ calls'[c].op = "clear"

FiredOfKey(key) == {t \in fired : t.key = key}

C5_ClearAfterFireStep ==
    \A c \in CallIds :
        (ClearStarts(c) /\ FiredOfKey(calls'[c].key) # {}
                        /\ TimersOfKey(calls'[c].key) = {}) =>
           /\ UNCHANGED <<scheduledTimeouts, timers, localStorage, shown>>
           /\ \A t \in FiredOfKey(calls'[c].key) :
                 (t.save /\ HasFacet(t.data, "banner")) =>
                    RecordCountIn(localStorage', t.timeoutId)
                       = (IF \E r \in Evicted : r.id = t.timeoutId THEN 0 ELSE 1)

C5_ClearAfterFireIsNoOp == [][C5_ClearAfterFireStep]_vars

\* clear has run after the fire of a saved notification of its key
C5_Witness ==
    \E c \in CallIds : \E t \in fired :
        /\ calls[c].op = "clear" /\ calls[c].pc = "refresh"
        /\ t.key = calls[c].key
        /\ t.save /\ HasFacet(t.data, "banner")
        /\ RecordCount(t.timeoutId) = 1

---------------------------------------------------------------------------
\* C6: the unread count computed by getUnreadNotificationCount equals the
\* number of stored records whose time is greater than the stored cursor.
C6_UnreadIsDerived ==
    getUnreadNotificationCount(localStorage)
        = Cardinality({i \in DOMAIN StoredHistory :
                          StoredHistory[i].time > CursorOf(localStorage)})

\* a cursor is stored, with records on both sides of it
C6_Witness ==
    /\ HasItem(localStorage, STORAGE_KEY_LAST_READ)
    /\ getUnreadNotificationCount(localStorage) > 0
    /\ \E i \in DOMAIN StoredHistory : StoredHistory[i].time <= CursorOf(localStorage)

---------------------------------------------------------------------------
\* C7: when calls are awaited, at the return of markAsRead() the snapshot's
\* unread count is 0, the unread count derived from the stores is 0, and the
\* snapshot's lastReadTimestamp is the stored cursor; this holds for every
\* call, so also for a second call in a row.
MarkAsReadReturns(c) ==
    calls[c].op = "markAsRead" /\ calls[c].pc = "refresh" /\ calls'[c].pc = "done"

C7_MarkAsReadStep ==
    \A c \in CallIds :
        MarkAsReadReturns(c) =>
           /\ snapshot'.unreadCount = 0
           /\ getUnreadNotificationCount(localStorage') = 0
           /\ snapshot'.lastReadTimestamp = CursorOf(localStorage')

C7_MarkAsReadZeroesUnread == [][C7_MarkAsReadStep]_vars

\* two markAsRead calls in a row have returned, with records in the store
\* that were unread before the first
C7_Witness ==
    /\ Len(events) = 2
    /\ Quiet
    /\ StoredHistory # <<>>
    /\ \E i \in DOMAIN StoredHistory : StoredHistory[i].time > 0
    /\ snapshot.unreadCount = 0
    /\ snapshot.lastReadTimestamp = CursorOf(localStorage)

---------------------------------------------------------------------------
\* C8 as stated: push(key, payload, {save: true, time: null}) under granted
\* permission appends exactly one record, with that key and payload and a time
\* within the call.
ImmediateSavedPush(c) ==
    /\ calls[c].op = "push"
    /\ calls[c].pc = "refresh"
    /\ calls[c].hasPermission
    /\ SaveOption(calls[c].opts)
    /\ "time" \notin DOMAIN calls[c].opts

OneRecordOfCall(c) ==
    /\ RecordCount(c) = 1
    /\ \A r \in RecordsOf(c) :
          /\ r.key = calls[c].key
          /\ r.data = calls[c].data
          /\ calls[c].startedAt <= r.time
          /\ r.time <= calls[c].endedAt

C8_Original ==
    \A c \in CallIds : ImmediateSavedPush(c) => OneRecordOfCall(c)

\* C8, amended: the same for a payload that has a banner; for a payload
\* without a banner the push appends no record.
C8_RoundTripWithBanner ==
    \A c \in CallIds :
        ImmediateSavedPush(c) =>
           IF HasFacet(calls[c].data, "banner")
           THEN OneRecordOfCall(c)
           ELSE RecordCount(c) = 0 /\ \A r \in appended : r.id # c

\* a push with toast and banner has returned after the user granted the prompt,
\* the clock having advanced during the call
C8_Witness ==
    \E c \in CallIds :
        /\ ImmediateSavedPush(c)
        /\ HasFacet(calls[c].data, "banner") /\ HasFacet(calls[c].data, "toast")
        /\ calls[c].startedAt < calls[c].endedAt
        /\ RecordCount(c) = 1

---------------------------------------------------------------------------
\* C9: when calls are awaited, a push with a banner and save = true that finds
\* permission denied or the notifier unsupported makes no display, arms no
\* timer and leaves no pending entry for its key, and appends exactly one
\* record, holding its payload, with the time of the append; whatever its
\* time option.
DeniedSavedPush(c) ==
    /\ calls[c].op = "push"
    /\ calls[c].pc = "refresh"
    /\ ~calls[c].hasPermission
    /\ SaveOption(calls[c].opts)
    /\ HasFacet(calls[c].data, "banner")

C9_DeniedPushSavesOnly ==
    \A c \in CallIds :
        DeniedSavedPush(c) =>
           /\ DisplaysOf(c) = {}
           /\ c \notin ArmedIds(timers \cup fired)
           /\ calls[c].key \notin DOMAIN scheduledTimeouts
           /\ RecordCount(c) = 1
           /\ \A r \in RecordsOf(c) :
                 /\ r.key = calls[c].key
                 /\ r.data["banner"] = calls[c].data["banner"]
                 /\ r.time = calls[c].endedAt

\* a denied push with a future time option has saved its banner
C9_Witness ==
    \E c \in CallIds :
        /\ DeniedSavedPush(c)
        /\ calls[c].permSeen = "denied"
        /\ "time" \in DOMAIN calls[c].opts
        /\ calls[c].opts["time"] > calls[c].endedAt
        /\ HasFacet(calls[c].data, "toast")
        /\ RecordCount(c) = 1
        /\ shown = <<>>

\* an unsupported notifier: the same
C9_WitnessUnsupported ==
    \E c \in CallIds :
        /\ DeniedSavedPush(c)
        /\ calls[c].permSeen = "unsupported"
        /\ RecordCount(c) = 1

---------------------------------------------------------------------------
\* C10: requestPermission prompts exactly when the notifier is supported and
\* the permission is undetermined, and then once; it returns false without a
\* prompt when the notifier is absent or the permission denied, true without
\* a prompt when granted, and after a prompt true exactly when the answer is
\* 'granted'.
PermissionChecked(c) ==
    IsPush(c) /\ calls[c].pc \in {"prompting", "afterPerm", "refresh"}

C10_PermissionGate ==
    \A c \in CallIds :
        PermissionChecked(c) =>
           /\ calls[c].permSeen \in {"unsupported", "denied"} =>
                 /\ calls[c].prompts = 0
                 /\ calls[c].pc # "prompting"
                 /\ ~calls[c].hasPermission
           /\ calls[c].permSeen = "granted" =>
                 /\ calls[c].prompts = 0
                 /\ calls[c].pc # "prompting"
                 /\ calls[c].hasPermission
           /\ calls[c].permSeen = "default" =>
                 /\ calls[c].prompts = 1
                 /\ calls[c].pc # "prompting" =>
                       (calls[c].hasPermission <=> calls[c].answer = "granted")

\* a call has prompted once and the user has declined
C10_Witness ==
    \E c \in CallIds :
        /\ PermissionChecked(c)
        /\ calls[c].pc = "afterPerm"
        /\ calls[c].permSeen = "default"
        /\ calls[c].prompts = 1
        /\ calls[c].answer = "denied"
        /\ ~calls[c].hasPermission

---------------------------------------------------------------------------
\* C11: whenever no operation is in progress (every operation and its refresh
\* have completed), the snapshot's unreadCount is the number of stored records
\* with time greater than the stored cursor and the snapshot's history has one
\* entry for each stored record inside the window.  The append made by a timer
\* fire is not followed by a refresh, so this does not hold.
C11_SnapshotFollowsStores ==
    (Quiet /\ ~snapshot.isLoading) =>
       /\ snapshot.unreadCount
             = Cardinality({i \in DOMAIN StoredHistory :
                               StoredHistory[i].time > CursorOf(localStorage)})
       /\ Len(snapshot.history)
             = Cardinality({i \in DOMAIN StoredHistory :
                               StoredHistory[i].time >= rangeTimestamp})

---------------------------------------------------------------------------
\* C12: when calls are awaited and permission is granted, a push with a time
\* in the future returns with its timer armed and with nothing displayed and
\* nothing appended; as long as a timer is armed its notification has been
\* neither displayed nor appended; once a timer has fired its notification has
\* been displayed exactly once if it has a toast (not at all otherwise) and
\* appended exactly once if save is true and it has a banner (not at all
\* otherwise).
ScheduledPush(c) ==
    /\ PushReturned(c)
    /\ calls[c].hasPermission
    /\ "time" \in DOMAIN calls[c].opts
    /\ calls[c].opts["time"] > calls[c].endedAt

AppendsOf(id) == {r \in appended : r.id = id}

C12_DeferredUntilFire ==
    /\ \A c \in CallIds :
          ScheduledPush(c) =>
             /\ NewTimer(c) \in timers
             /\ DisplaysOf(c) = {}
             /\ AppendsOf(c) = {}
    /\ \A t \in timers :
          /\ DisplaysOf(t.timeoutId) = {}
          /\ AppendsOf(t.timeoutId) = {}
    /\ \A t \in fired :
          /\ Cardinality(DisplaysOf(t.timeoutId))
                = (IF HasFacet(t.data, "toast") THEN 1 ELSE 0)
          /\ Cardinality(AppendsOf(t.timeoutId))
                = (IF t.save /\ HasFacet(t.data, "banner") THEN 1 ELSE 0)
          /\ RecordCount(t.timeoutId) = Cardinality(AppendsOf(t.timeoutId))
          /\ \A r \in AppendsOf(t.timeoutId) : r.time >= t.fireAt

\* a timer of a saved notification with toast and banner has fired: one
\* display, one record
C12_Witness ==
    \E t \in fired :
        /\ t.save
        /\ HasFacet(t.data, "toast") /\ HasFacet(t.data, "banner")
        /\ Cardinality(DisplaysOf(t.timeoutId)) = 1
        /\ RecordCount(t.timeoutId) = 1

---------------------------------------------------------------------------
\* C13: the first step of every push (and schedule) call takes the entry
\* pending under its key out of the map and disarms its timer, before the
\* permission is known and so whichever branch follows; and in every state an
\* entry taken out of the map has been neither displayed nor appended, however
\* the permission changes afterwards.
PushStarts(c) == calls[c].pc = "idle" /\ calls'[c].op \in {"push", "schedule"}

C13_Step ==
    /\ \A c \in CallIds :
          PushStarts(c) =>
             /\ calls'[c].key \notin DOMAIN scheduledTimeouts'
             /\ \A t \in timers' : t.key # calls'[c].key
             /\ \A e \in EntriesOf(scheduledTimeouts, calls'[c].key) :
                   /\ e \in cancelled'
                   /\ e.timeoutId \notin ArmedIds(timers')
    /\ CancelledNeverFires'

C13_PushCancelsPending == [][C13_Step]_vars

\* a push that found the permission withdrawn has cancelled the entry pending
\* under its key and saved its own banner; the cancelled entry has not fired
C13_Witness ==
    \E c \in CallIds : \E e \in cancelled :
        /\ PushReturned(c)
        /\ ~calls[c].hasPermission
        /\ calls[c].permSeen = "denied"
        /\ e.key = calls[c].key
        /\ e.timeoutId \notin ArmedIds(fired)
        /\ RecordCount(c) = 1
        /\ RecordCount(e.timeoutId) = 0

---------------------------------------------------------------------------
\* C14: a step of clear(key) leaves localStorage (the stored history and the
\* stored cursor) unchanged; if key has an entry in the pending map the step
\* disarms the timer of that entry and removes the entry, leaving every other
\* entry and timer as they were; if key has no entry the map and the timers
\* are unchanged; and clearNotification(key) applied to the result changes
\* nothing, so clear applied twice has the effect of clear applied once.
C14_Step ==
    \A c \in CallIds :
        ClearStarts(c) =>
           LET key == calls'[c].key
           IN /\ localStorage' = localStorage
              /\ DOMAIN scheduledTimeouts' = DOMAIN scheduledTimeouts \ {key}
              /\ \A k \in DOMAIN scheduledTimeouts' :
                    scheduledTimeouts'[k] = scheduledTimeouts[k]
              /\ IF key \in DOMAIN scheduledTimeouts
                 THEN timers' = {t \in timers :
                                    t.timeoutId # scheduledTimeouts[key].timeoutId}
                 ELSE timers' = timers
              /\ clearNotification(scheduledTimeouts', timers', key)
                    = [map |-> scheduledTimeouts', timers |-> timers']

C14_ClearOnlyCancels == [][C14_Step]_vars

\* clear has removed a pending entry of its key while the store holds a history
C14_Witness ==
    \E c \in CallIds : \E e \in cancelled :
        /\ calls[c].op = "clear" /\ calls[c].pc = "refresh"
        /\ e.key = calls[c].key
        /\ e.timeoutId \notin ArmedIds(timers)
        /\ calls[c].key \notin DOMAIN scheduledTimeouts
        /\ Len(StoredHistory) = MAX_HISTORY_SIZE

---------------------------------------------------------------------------
\* C15: in every step the stored read cursor does not decrease; a step that
\* changes the stored cursor item is the start of a markAsRead call, and every
\* start of a markAsRead call leaves the cursor equal to the clock value of
\* that moment.
MarkAsReadStarts(c) == calls[c].pc = "idle" /\ calls'[c].op = "markAsRead"

CursorItemChanges ==
    \/ HasItem(localStorage', STORAGE_KEY_LAST_READ)
          # HasItem(localStorage, STORAGE_KEY_LAST_READ)
    \/ /\ HasItem(localStorage, STORAGE_KEY_LAST_READ)
       /\ HasItem(localStorage', STORAGE_KEY_LAST_READ)
       /\ localStorage'[STORAGE_KEY_LAST_READ] # localStorage[STORAGE_KEY_LAST_READ]

C15_Step ==
    /\ CursorOf(localStorage') >= CursorOf(localStorage)
    /\ CursorItemChanges => \E c \in CallIds : MarkAsReadStarts(c)
    /\ \A c \in CallIds :
          MarkAsReadStarts(c) =>
             /\ HasItem(localStorage', STORAGE_KEY_LAST_READ)
             /\ CursorOf(localStorage') = now

C15_CursorOnlyAdvances == [][C15_Step]_vars

\* a second markAsRead has moved the cursor forward: the snapshot still shows
\* the cursor stored by the first
C15_Witness ==
    \E c \in CallIds :
        /\ calls[c].op = "markAsRead" /\ calls[c].pc = "markCount"
        /\ CursorOf(localStorage) = now
        /\ snapshot.lastReadTimestamp > 0
        /\ snapshot.lastReadTimestamp < CursorOf(localStorage)

---------------------------------------------------------------------------
\* C16: for null and for every number fromTime, getNotificationHistory returns
\* a sequence ordered by time descending that holds exactly the stored records
\* (all of them for null, those with time >= fromTime otherwise), each once;
\* and a step that runs a refresh, which calls it, leaves localStorage
\* unchanged.
FromTimes == {{}} \cup {{t} : t \in 0..(MaxTime + 1)}

ListSinceIsCorrect ==
    \A fromTime \in FromTimes :
        LET listed == getNotificationHistory(localStorage, fromTime)
            wanted == {i \in DOMAIN StoredHistory :
                          \A t \in fromTime : StoredHistory[i].time >= t}
        IN /\ \A i \in 1..(Len(listed) - 1) : listed[i].time >= listed[i + 1].time
           /\ Len(listed) = Cardinality(wanted)
           /\ SetOf(listed) = {StoredHistory[i] : i \in wanted}

RefreshRuns ==
    \/ snapshot.isLoading /\ ~snapshot'.isLoading
    \/ \E c \in CallIds : calls[c].pc \in {"idle", "refresh"} /\ calls'[c] = DoneCall

\* every store content is met at the start of a step: a step that writes the
\* store leaves its call with a refresh still to run
C16_ListSince ==
    [][ListSinceIsCorrect /\ (RefreshRuns => localStorage' = localStorage)]_vars

\* a refresh has listed the records inside the window of a store that also
\* holds older records, the newest first
C16_Witness ==
    /\ ~snapshot.isLoading
    /\ Len(snapshot.history) > 1
    /\ Len(snapshot.history) < Len(StoredHistory)
    /\ snapshot.history[1]["time"] > snapshot.history[Len(snapshot.history)]["time"]
    /\ Len(snapshot.history) = Len(getNotificationHistory(localStorage, {rangeTimestamp}))

---------------------------------------------------------------------------
\* C17: while the storage cannot be read, or the stored history text does not
\* parse, getNotificationHistory returns the empty sequence for null and for
\* every fromTime, no error has reached the caller of a hook operation, and a
\* snapshot refreshed from such a store has an empty history.
StoreUnreadable ==
    \/ getItemThrows
    \/ /\ HasItem(localStorage, STORAGE_KEY_HISTORY)
       /\ JSONparseThrows(localStorage[STORAGE_KEY_HISTORY])

ReachedCaller == {e \in errors : e.where = "caller"}

C17_ListSinceDegrades ==
    StoreUnreadable =>
       /\ \A fromTime \in FromTimes :
             getNotificationHistory(localStorage, fromTime) = <<>>
       /\ ReachedCaller = {}
       /\ (Quiet /\ ~snapshot.isLoading) => snapshot.history = <<>>

\* the storage holds a full history and cannot be read: two operations have
\* refreshed, the snapshot's history is empty
C17_Witness ==
    /\ fault = "unreadable"
    /\ Len(JSONparse(localStorage[STORAGE_KEY_HISTORY])) = MAX_HISTORY_SIZE
    /\ Quiet /\ ~snapshot.isLoading
    /\ nextCall > MaxCalls
    /\ snapshot.history = <<>>

\* the stored history text does not parse: a refresh has run, the snapshot's
\* history is empty
C17_WitnessCorrupt ==
    /\ HasItem(localStorage, STORAGE_KEY_HISTORY)
    /\ JSONparseThrows(localStorage[STORAGE_KEY_HISTORY])
    /\ Quiet /\ ~snapshot.isLoading
    /\ nextCall > 1
    /\ snapshot.history = <<>>

---------------------------------------------------------------------------
\* C18: in a session whose storage refuses every write, no step changes
\* localStorage and no error reaches the caller of a hook operation; the step
\* of a push that displays immediately still makes its display call and goes
\* on to its refresh, and the step of a timer fire still makes its display
\* call, when the payload has a toast.
PushContinues(c) == calls[c].pc = "afterPerm" /\ calls'[c].pc # "afterPerm"

DisplayedBy(id) ==
    /\ Len(shown') = Len(shown) + 1
    /\ shown'[Len(shown')].id = id
    /\ \A i \in DOMAIN shown : shown'[i] = shown[i]

C18_Step ==
    setItemThrows =>
       /\ localStorage' = localStorage
       /\ ReachedCaller' = {}
       /\ \A c \in CallIds :
             (/\ PushContinues(c)
              /\ calls[c].hasPermission
              /\ ShowImmediately(calls[c].opts, now)
              /\ HasFacet(calls[c].data, "toast")) =>
                 /\ DisplayedBy(c)
                 /\ calls'[c].pc = "refresh"
       /\ \A t \in fired' \ fired :
             HasFacet(t.data, "toast") => DisplayedBy(t.timeoutId)

C18_FailedWriteIsDropped == [][C18_Step]_vars

\* the storage is full: a push of a saved banner with a toast has displayed
\* and returned, and the stored history is the one of before
C18_Witness ==
    \E c \in CallIds :
        /\ fault = "full"
        /\ PushReturned(c)
        /\ calls[c].hasPermission
        /\ SaveOption(calls[c].opts)
        /\ HasFacet(calls[c].data, "toast") /\ HasFacet(calls[c].data, "banner")
        /\ DisplaysOf(c) # {}
        /\ StoredHistory = StoredBefore

\* the storage is full: the timer of a saved banner with a toast has fired
\* and displayed, and the stored history is the one of before
C18_WitnessTimer ==
    \E t \in fired :
        /\ fault = "full"
        /\ t.save
        /\ HasFacet(t.data, "toast") /\ HasFacet(t.data, "banner")
        /\ DisplaysOf(t.timeoutId) # {}
        /\ StoredHistory = StoredBefore

---------------------------------------------------------------------------
\* C19: in a session with a fault (storage unreadable, storage full, stored
\* history not parseable, display call throwing, permission prompt rejecting)
\* no error thrown inside push, clear, schedule, markAsRead or refresh reaches
\* the caller: an error that leaves pushNotification ends in the catch of the
\* hook operation and the call is over; and when no call is in progress the
\* snapshot is consistent: it is what one refresh has set.  Its history lies
\* inside the hook's window, newest first, and its unreadCount, counted over
\* the whole store, is at least the number of its history entries newer than
\* its lastReadTimestamp (the two differ when the store holds an unread
\* record older than the window, see C31).
SnapshotConsistent ==
    /\ snapshot.unreadCount >= Len(newNotifications(snapshot))
    /\ \A i \in DOMAIN snapshot.history :
          /\ snapshot.history[i]["time"] >= rangeTimestamp
          /\ \A j \in DOMAIN snapshot.history :
                i < j => snapshot.history[i]["time"] >= snapshot.history[j]["time"]

C19_HookNeverThrows ==
    /\ ReachedCaller = {}
    /\ \A e \in errors : e.where = "hook" => calls[e.id].pc = "done"
    /\ (Quiet /\ ~snapshot.isLoading) => SnapshotConsistent

\* the display call of an immediate push has thrown: the hook has caught the
\* error, the call is over, nothing was displayed
C19_Witness ==
    \E e \in errors :
        /\ fault = "display"
        /\ e.where = "hook"
        /\ calls[e.id].pc = "done"
        /\ DisplaysOf(e.id) = {}
        /\ Quiet /\ SnapshotConsistent

\* the permission prompt of a push has rejected: the hook has caught the error
C19_WitnessPrompt ==
    \E e \in errors :
        /\ fault = "prompt"
        /\ e.where = "hook"
        /\ calls[e.id].pc = "done"
        /\ permission = "default"

---------------------------------------------------------------------------
\* C20: no entry registered under a key of schedule is ever taken out of the
\* pending map by a later call (the key of every schedule call is its own),
\* and a schedule call pushes with time = now + delayMs, save = true and a
\* payload whose toast and banner carry the same title and body.  The key is
\* "scheduled-" followed by the clock value, so two schedule calls at the same
\* clock value share it and the first part does not hold.
IsScheduleKey(key) == key[1] = "scheduled-"

C20_ScheduleKeysUnique ==
    /\ \A e \in cancelled : ~IsScheduleKey(e.key)
    /\ \A c \in CallIds :
          (calls[c].op = "schedule" /\ calls[c].pc # "done") =>
             /\ IsScheduleKey(calls[c].key)
             /\ calls[c].key[2] = calls[c].startedAt
             /\ calls[c].opts["time"] - calls[c].startedAt \in Delays
             /\ calls[c].opts["save"] = TRUE
             /\ calls[c].data["toast"].title = calls[c].data["banner"].title
             /\ calls[c].data["toast"].body = calls[c].data["banner"].body

---------------------------------------------------------------------------
\* C21: a step changes the stored history item only when it appends a record,
\* and then a record of the stored history either stays in the store with the
\* same key, data and time, or leaves it through capacity eviction: the store
\* was full, it is full afterwards and the record that left is no newer than
\* any record kept; and every record in the store after the step that was not
\* there before, as it is, is the one the step appended and not a changed
\* version of a record stored before (it carries the label of no such record).
Appending == appended' # appended

EvictedByCapacity(r) ==
    /\ Appending
    /\ Len(getStoredHistory(localStorage)) = MAX_HISTORY_SIZE
    /\ Len(getStoredHistory(localStorage')) = MAX_HISTORY_SIZE
    /\ \A q \in SetOf(getStoredHistory(localStorage')) : r.time <= q.time

HistoryItemChanges ==
    \/ HasItem(localStorage', STORAGE_KEY_HISTORY) # HasItem(localStorage, STORAGE_KEY_HISTORY)
    \/ /\ HasItem(localStorage, STORAGE_KEY_HISTORY)
       /\ HasItem(localStorage', STORAGE_KEY_HISTORY)
       /\ localStorage'[STORAGE_KEY_HISTORY] # localStorage[STORAGE_KEY_HISTORY]

C21_Step ==
    /\ HistoryItemChanges => Appending
    /\ HistoryItemChanges =>
          LET before == SetOf(getStoredHistory(localStorage))
              after == SetOf(getStoredHistory(localStorage'))
          IN /\ \A r \in before \ after : EvictedByCapacity(r)
             /\ after \ before \subseteq appended' \ appended
             /\ \A q \in after \ before : \A r \in before : r.id # q.id

C21_RecordsAreImmutable == [][C21_Step]_vars

\* every operation has been used on a full store: the oldest record has been
\* evicted by an append, the other records of earlier sessions are in the store
\* as they were, and a clear or a markAsRead has run since
C21_Witness ==
    /\ Cardinality(Evicted) = 1
    /\ \A i \in 2..MAX_HISTORY_SIZE : StoredBefore[i] \in Retained
    /\ \E r \in Retained : r.id = 1
    /\ calls[2].op \in {"clear", "markAsRead"} /\ calls[2].pc = "refresh"

---------------------------------------------------------------------------
\* C22: when calls are awaited, an entry is pending exactly while it is in the
\* map with its timer armed; a step fires or cancels only an entry that is
\* pending, and never both; after the step the entry is neither in the map nor
\* armed, and it stays so (an entry that has fired or was cancelled is never
\* pending again, so it cannot fire or be cancelled a second time); the
\* display callback has run once for an entry that has fired (one display call
\* if the payload has a toast) and not at all for any other entry.
IsPending(id) ==
    /\ id \in ArmedIds(timers)
    /\ \E k \in DOMAIN scheduledTimeouts : scheduledTimeouts[k].timeoutId = id

InMapOrArmed(id) ==
    \/ id \in ArmedIds(timers)
    \/ \E k \in DOMAIN scheduledTimeouts : scheduledTimeouts[k].timeoutId = id

TerminalIds == ArmedIds(fired) \cup ArmedIds(cancelled)

\* the timer and the map entry of a push carry the same timeoutId
EntryIds == ArmedIds(timers) \cup TerminalIds

C22_State ==
    /\ ArmedIds(fired) \cap ArmedIds(cancelled) = {}
    /\ \A id \in TerminalIds : ~InMapOrArmed(id)
    /\ \A id \in EntryIds \ TerminalIds : IsPending(id)
    /\ \A k \in DOMAIN scheduledTimeouts :
          /\ scheduledTimeouts[k].key = k
          /\ IsPending(scheduledTimeouts[k].timeoutId)
    /\ \A t \in fired :
          Cardinality(DisplaysOf(t.timeoutId)) = (IF HasFacet(t.data, "toast") THEN 1 ELSE 0)
    /\ \A id \in EntryIds \ ArmedIds(fired) : DisplaysOf(id) = {}

C22_Step ==
    /\ \A t \in fired' \ fired :
          /\ IsPending(t.timeoutId)
          /\ t.timeoutId \notin TerminalIds
          /\ Len(shown') = Len(shown) + (IF HasFacet(t.data, "toast") THEN 1 ELSE 0)
    /\ \A e \in cancelled' \ cancelled :
          /\ IsPending(e.timeoutId)
          /\ e.timeoutId \notin TerminalIds
          /\ shown' = shown
    /\ fired \subseteq fired'
    /\ cancelled \subseteq cancelled'
    /\ (fired' = fired) => shown' = shown \/ \E c \in CallIds : PushContinues(c)
    /\ C22_State'

C22_SchedulerLifecycle == [][C22_Step]_vars

\* both terminal states have been reached under one key: the first entry was
\* cancelled by the push that replaced it, the second has fired and displayed,
\* and neither is in the map or armed
C22_Witness ==
    \E e \in cancelled : \E t \in fired :
        /\ e.key = t.key
        /\ e.timeoutId = 1 /\ t.timeoutId = 2
        /\ HasFacet(e.data, "toast") /\ HasFacet(t.data, "toast")
        /\ DisplaysOf(1) = {} /\ Cardinality(DisplaysOf(2)) = 1
        /\ t.key \notin DOMAIN scheduledTimeouts
        /\ timers = {}

---------------------------------------------------------------------------
\* C23: no step changes the window boundary of the binding, which is the clock
\* value of the initialization minus the window (so never later than the
\* current clock value minus the window); a step that runs a refresh leaves
\* the store as it is, and after it the snapshot's history has one entry for
\* each stored record with time >= the boundary and no other entry: the same
\* number of entries at each time, each the banner of a stored record of that
\* time.
InsideWindow(ls, boundary) ==
    {i \in DOMAIN getStoredHistory(ls) : getStoredHistory(ls)[i].time >= boundary}

C23_Step ==
    /\ rangeTimestamp' = rangeTimestamp
    /\ rangeTimestamp + WindowDays <= now
    /\ RefreshRuns =>
          LET stored == getStoredHistory(localStorage)
              inside == InsideWindow(localStorage, rangeTimestamp)
              listed == snapshot'.history
          IN /\ localStorage' = localStorage
             /\ Len(listed) = Cardinality(inside)
             /\ \A tv \in 0..(MaxTime + 1) :
                   Cardinality({j \in DOMAIN listed : listed[j]["time"] = tv})
                      = Cardinality({i \in inside : stored[i].time = tv})
             /\ \A j \in DOMAIN listed :
                   \E i \in inside : listed[j] = FlattenRecord(stored[i])

C23_WindowFixedAtMount == [][C23_Step]_vars

\* the clock has moved on since the initialization, so a boundary computed now
\* would be later; a refresh has listed the record appended since and the
\* records of earlier sessions inside the window, and left out the older ones
C23_Witness ==
    /\ Quiet /\ ~snapshot.isLoading
    /\ nextCall > MaxCalls
    /\ now - WindowDays > rangeTimestamp
    /\ Len(StoredHistory) = MAX_HISTORY_SIZE
    /\ Len(snapshot.history) = Cardinality(InsideWindow(localStorage, rangeTimestamp))
    /\ Len(snapshot.history) < Len(StoredHistory)
    /\ snapshot.history[1]["time"] > WindowDays + 1
    /\ snapshot.history[Len(snapshot.history)]["time"] = WindowDays

---------------------------------------------------------------------------
\* C24: the step of a push that takes the denied, the immediate or the
\* scheduling branch, and the step of a timer fire, make no display call when
\* the payload has no toast and leave localStorage (and so the stored history)
\* as it is when the payload has no banner; no error is thrown, and the push
\* goes on to its refresh.
C24_Step ==
    /\ \A c \in CallIds :
          PushContinues(c) =>
             /\ ~HasFacet(calls[c].data, "toast") => shown' = shown
             /\ ~HasFacet(calls[c].data, "banner") =>
                   localStorage' = localStorage /\ appended' = appended
             /\ calls'[c].pc = "refresh"
    /\ \A t \in fired' \ fired :
          /\ ~HasFacet(t.data, "toast") => shown' = shown
          /\ ~HasFacet(t.data, "banner") =>
                localStorage' = localStorage /\ appended' = appended
          /\ t.key \notin DOMAIN scheduledTimeouts'
    /\ errors' = {}

C24_MissingFacetIsNoOp == [][C24_Step]_vars

\* the timer of a saved payload with neither facet has fired, and an immediate
\* saved push of a toast alone has returned: no display for the first, one for
\* the second, and the store holds the history of earlier sessions and nothing
\* else
C24_Witness ==
    \E t \in fired : \E c \in CallIds :
        /\ t.data = NoFacets /\ t.save
        /\ DisplaysOf(t.timeoutId) = {}
        /\ PushReturned(c) /\ calls[c].hasPermission
        /\ calls[c].data = ToastOnly /\ SaveOption(calls[c].opts)
        /\ Cardinality(DisplaysOf(c)) = 1
        /\ StoredHistory = StoredBefore

\* a saved push of a toast alone has taken the denied branch: no display, and
\* the store holds the history of earlier sessions and nothing else
C24_WitnessDenied ==
    \E c \in CallIds :
        /\ PushReturned(c) /\ ~calls[c].hasPermission
        /\ calls[c].data = ToastOnly /\ SaveOption(calls[c].opts)
        /\ shown = <<>>
        /\ StoredHistory = StoredBefore

---------------------------------------------------------------------------
\* C25: under granted permission, a push whose time option is missing (or
\* null), 0, or not later than the clock has, when pushNotification returns,
\* made its display call (one if the payload has a toast, none otherwise) and
\* its append (one record if save is true and the payload has a banner, with a
\* time within the call), armed no timer, and left the pending map without an
\* entry for its key and no timer armed for its key.
AsksForNow(c) ==
    \/ "time" \notin DOMAIN calls[c].opts
    \/ calls[c].opts["time"] = 0
    \/ calls[c].opts["time"] <= calls[c].endedAt

C25_ImmediateLeavesNoEntry ==
    \A c \in CallIds :
        (PushReturned(c) /\ calls[c].hasPermission /\ AsksForNow(c)) =>
           /\ Cardinality(DisplaysOf(c))
                 = (IF HasFacet(calls[c].data, "toast") THEN 1 ELSE 0)
           /\ Cardinality(AppendsOf(c))
                 = (IF SaveOption(calls[c].opts) /\ HasFacet(calls[c].data, "banner")
                    THEN 1 ELSE 0)
           /\ \A r \in AppendsOf(c) :
                 /\ r \in Retained
                 /\ calls[c].startedAt <= r.time /\ r.time <= calls[c].endedAt
           /\ calls[c].key \notin DOMAIN scheduledTimeouts
           /\ TimersOfKey(calls[c].key) = {}
           /\ c \notin ArmedIds(timers \cup fired)

\* a push with time 0 has replaced the entry pending under its key: it has
\* displayed and appended, the entry of before was cancelled, and nothing is
\* pending or armed
C25_Witness ==
    \E c \in CallIds : \E e \in cancelled :
        /\ PushReturned(c) /\ calls[c].hasPermission
        /\ "time" \in DOMAIN calls[c].opts /\ calls[c].opts["time"] = 0
        /\ e.key = calls[c].key
        /\ Cardinality(DisplaysOf(c)) = 1
        /\ RecordCount(c) = 1
        /\ scheduledTimeouts = <<>>
        /\ timers = {}

\* the same for a push whose time is the current clock value
C25_WitnessNow ==
    \E c \in CallIds :
        /\ PushReturned(c) /\ calls[c].hasPermission
        /\ "time" \in DOMAIN calls[c].opts /\ calls[c].opts["time"] = calls[c].endedAt
        /\ Cardinality(DisplaysOf(c)) = 1
        /\ RecordCount(c) = 1
        /\ scheduledTimeouts = <<>>

---------------------------------------------------------------------------
\* C26: while the page lives, every entry whose timer is armed is eventually
\* either cancelled (by clear, or by a later push of its key) or fired, and an
\* entry that has fired is in the map no longer and its timer is armed no
\* longer.
C26_PendingEventuallyFires ==
    /\ \A id \in CallIds :
          (id \in ArmedIds(timers))
             ~> (id \in ArmedIds(cancelled)
                    \/ (id \in ArmedIds(fired) /\ ~InMapOrArmed(id)))
    /\ [](\A t \in fired : ~InMapOrArmed(t.timeoutId))

\* an entry has fired and left the map, after two calls neither of which
\* cancelled it
C26_Witness ==
    \E t \in fired :
        /\ cancelled = {}
        /\ nextCall > MaxCalls
        /\ t.timeoutId = 1
        /\ t.key \notin DOMAIN scheduledTimeouts
        /\ timers = {}
        /\ Cardinality(DisplaysOf(1)) = 1

---------------------------------------------------------------------------
\* C27: the step of a push whose options have save = false, in the denied and
\* in the immediate branch, and the callback of a timer armed by such a push,
\* leave localStorage (and so the stored history) as it is; a timer is armed
\* with save = false exactly when the options of its push have save = false;
\* and a push whose options have no save, with a banner, appends one record
\* in the denied and in the immediate branch.
SaveIsFalse(opts) == "save" \in DOMAIN opts /\ opts["save"] = FALSE

SaveIsOmitted(opts) == "save" \notin DOMAIN opts

C27_Step ==
    /\ \A c \in CallIds :
          (PushContinues(c) /\ SaveIsFalse(calls[c].opts)) =>
             /\ localStorage' = localStorage
             /\ appended' = appended
    /\ \A t \in fired' \ fired :
          ~t.save => localStorage' = localStorage /\ appended' = appended
    /\ \A c \in CallIds : \A t \in timers' \ timers :
          (PushContinues(c) /\ t.timeoutId = c) =>
             (t.save <=> ~SaveIsFalse(calls[c].opts))
    /\ \A c \in CallIds :
          (/\ PushContinues(c)
           /\ SaveIsOmitted(calls[c].opts)
           /\ HasFacet(calls[c].data, "banner")
           /\ timers' = timers) =>
              /\ Cardinality(appended' \ appended) = 1
              /\ RecordCountIn(localStorage', c) = 1

C27_SaveFalseWritesNothing == [][C27_Step]_vars

\* the timer of a push with save = false and a banner has fired and displayed,
\* and a second push with save = false has taken the immediate branch: the
\* store holds the history of earlier sessions and nothing else
C27_Witness ==
    \E t \in fired : \E c \in CallIds :
        /\ ~t.save /\ HasFacet(t.data, "banner") /\ HasFacet(t.data, "toast")
        /\ Cardinality(DisplaysOf(t.timeoutId)) = 1
        /\ PushReturned(c) /\ calls[c].hasPermission
        /\ SaveIsFalse(calls[c].opts) /\ HasFacet(calls[c].data, "banner")
        /\ c \notin ArmedIds(timers)
        /\ StoredHistory = StoredBefore
        /\ appended = SetOf(StoredBefore)

\* a push with save = false and a banner has taken the denied branch: the
\* store holds the history of earlier sessions and nothing else
C27_WitnessDenied ==
    \E c \in CallIds :
        /\ PushReturned(c) /\ ~calls[c].hasPermission
        /\ SaveIsFalse(calls[c].opts) /\ HasFacet(calls[c].data, "banner")
        /\ StoredHistory = StoredBefore
        /\ appended = SetOf(StoredBefore)

---------------------------------------------------------------------------
\* C28: a call of setLastReadTimestamp(timestamp) on a storage that accepts the
\* write stores timestamp as the cursor, leaving the history item as it is,
\* and ends by dispatching one event whose count is the number of stored
\* records with time > timestamp; on a storage that refuses the write it
\* leaves localStorage as it is and dispatches no event; no other step
\* dispatches an event, and no error is thrown to the caller.
CursorCallStarts(c) == calls[c].pc = "idle" /\ calls'[c].op = "setLastReadTimestamp"

CursorCallEnds(c) ==
    /\ calls[c].op = "setLastReadTimestamp"
    /\ calls[c].pc = "markCount"
    /\ calls'[c].pc = "done"

NewerThan(timestamp) ==
    {i \in DOMAIN StoredHistory : StoredHistory[i].time > timestamp}

C28_Step ==
    /\ \A c \in CallIds :
          CursorCallStarts(c) =>
             IF setItemThrows
             THEN localStorage' = localStorage
             ELSE /\ HasItem(localStorage', STORAGE_KEY_LAST_READ)
                  /\ CursorOf(localStorage') = calls'[c].opts["timestamp"]
                  /\ ~HistoryItemChanges
    /\ \A c \in CallIds :
          CursorCallEnds(c) =>
             /\ localStorage' = localStorage
             /\ IF setItemThrows
                THEN events' = events
                ELSE events' = Append(events,
                        [count |-> Cardinality(NewerThan(calls[c].opts["timestamp"]))])
    /\ events' # events => \E c \in CallIds : CursorCallEnds(c)
    /\ errors' = {}

C28_SetCursorSignals == [][C28_Step]_vars

\* the cursor was set to the time of the newest records of earlier sessions
\* after a push has appended a newer one: one event, with count 1
C28_Witness ==
    /\ fault = "none"
    /\ Quiet
    /\ CursorOf(localStorage) = WindowDays
    /\ events = <<[count |-> 1]>>
    /\ Len(StoredHistory) = MAX_HISTORY_SIZE

\* the storage refuses the write: two calls of setLastReadTimestamp have ended,
\* no cursor is stored and no event was dispatched
C28_WitnessFailed ==
    /\ fault = "full"
    /\ Quiet /\ nextCall > MaxCalls
    /\ shown = <<>>
    /\ ~HasItem(localStorage, STORAGE_KEY_LAST_READ)
    /\ events = <<>>

---------------------------------------------------------------------------
\* C29: the step in which a timer fires leaves in the pending map every entry
\* other than the one of that timer, and after it every timer still armed can
\* be cancelled through its key: clearNotification of its key disarms it.
\* The callback deletes by key, so when two pushes of one key have overlapped
\* and both armed a timer, the fire of the first removes the entry of the
\* second, and this does not hold.
C29_Step ==
    \A t \in fired' \ fired :
        /\ \A k \in DOMAIN scheduledTimeouts :
              scheduledTimeouts[k].timeoutId # t.timeoutId =>
                 /\ k \in DOMAIN scheduledTimeouts'
                 /\ scheduledTimeouts'[k] = scheduledTimeouts[k]
        /\ \A u \in timers' :
              u \notin clearNotification(scheduledTimeouts', timers', u.key).timers

C29_FireRemovesOwnEntryOnly == [][C29_Step]_vars

---------------------------------------------------------------------------
\* C30: once clear(key) has run after a push of key for a future time was
\* called, whether that push had armed its timer (and clear cancelled its
\* entry) or was still suspended before arming it, the notification of that
\* push is never displayed and never appended.  A push that is suspended has
\* no entry yet, clear finds nothing to cancel, and the push arms its timer
\* afterwards, so this does not hold.
ForLater(c) ==
    /\ "time" \in DOMAIN calls[c].opts
    /\ calls[c].opts["time"] > now

\* clear call d has just run, and push call c of the same key, for a time still
\* in the future, was called before it and is suspended
ClearedWhileSuspended(c, d) ==
    /\ c < d
    /\ calls[d].op = "clear" /\ calls[d].pc = "refresh"
    /\ PushInProgress(c)
    /\ calls[c].key = calls[d].key
    /\ ForLater(c)

\* clear call d has just run and has cancelled the entry of push call c
ClearedWhilePending(c, d) ==
    /\ c < d
    /\ calls[d].op = "clear" /\ calls[d].pc = "refresh"
    /\ \E e \in cancelled : e.timeoutId = c /\ e.key = calls[d].key

NeverShown(c) == DisplaysOf(c) = {} /\ AppendsOf(c) = {}

C30_ClearCancelsSuspendedPush ==
    \A c \in CallIds : \A d \in CallIds :
        []((ClearedWhileSuspended(c, d) \/ ClearedWhilePending(c, d)) => []NeverShown(c))

---------------------------------------------------------------------------
\* C31: whenever no operation is in progress and the initial refresh has run
\* (so the snapshot is the one set by the last completed refresh), the
\* snapshot's unreadCount is the number of entries of newNotifications, and
\* newNotifications and oldNotifications partition the snapshot's history:
\* every entry is in exactly one of them.  unreadCount is counted over the
\* whole store and the history is cut at the window boundary, so with an
\* unread record older than the window the first part does not hold.
C31_Partition ==
    /\ Len(newNotifications(snapshot)) + Len(oldNotifications(snapshot))
          = Len(snapshot.history)
    /\ \A i \in DOMAIN snapshot.history :
          (snapshot.history[i]["time"] > snapshot.lastReadTimestamp)
             # (snapshot.history[i]["time"] <= snapshot.lastReadTimestamp)

C31_UnreadCountIsNewCount ==
    (Quiet /\ ~snapshot.isLoading) =>
       /\ snapshot.unreadCount = Len(newNotifications(snapshot))
       /\ C31_Partition

---------------------------------------------------------------------------
\* C32: isLoading is true in the initial state; while it is true the snapshot
\* is the initial one and the only step that changes the snapshot is the
\* completion of the initial refresh, which sets isLoading to FALSE together
\* with what the refresh has read, also when the store cannot be read or
\* parsed; once isLoading is false no step of any operation sets it to TRUE.
InitialSnapshot ==
    [history |-> <<>>, unreadCount |-> 0, isLoading |-> TRUE, lastReadTimestamp |-> 0]

C32_Step ==
    /\ snapshot.isLoading => snapshot = InitialSnapshot
    /\ (snapshot.isLoading /\ snapshot' # snapshot) =>
          snapshot' = [refresh(localStorage, snapshot, rangeTimestamp)
                          EXCEPT !.isLoading = FALSE]
    /\ ~snapshot.isLoading => ~snapshot'.isLoading

C32_LoadingEndsOnce == [][C32_Step]_vars

\* the store cannot be read: the initial refresh has completed all the same,
\* every call of the session is over and isLoading is still false
C32_Witness ==
    /\ fault = "unreadable"
    /\ snapshot = [InitialSnapshot EXCEPT !.isLoading = FALSE]
    /\ Quiet
    /\ nextCall > MaxCalls

\* the stored history cannot be parsed and a call has been through its
\* refresh: isLoading is still false
C32_WitnessCorrupt ==
    /\ HasItem(localStorage, STORAGE_KEY_HISTORY)
    /\ JSONparseThrows(localStorage[STORAGE_KEY_HISTORY])
    /\ ~snapshot.isLoading
    /\ \E c \in CallIds : calls[c].pc = "done"

---------------------------------------------------------------------------
\* C33: while the stored history cannot be read (getItem throws) or cannot be
\* parsed, a step that appends a record leaves under the history key the
\* history that holds the new record and nothing else, in place of the value
\* stored before; and the stored value changes in no other way.  (When the
\* write is refused as well nothing is appended and the value stays, C18.)
C33_Step ==
    StoreUnreadable =>
       /\ HistoryItemChanges => Appending
       /\ Appending =>
             \E r \in appended' \ appended :
                 /\ appended' \ appended = {r}
                 /\ r.time = now
                 /\ HasItem(localStorage', STORAGE_KEY_HISTORY)
                 /\ localStorage'[STORAGE_KEY_HISTORY] = JSONstringify(<<r>>)

C33_UnreadableHistoryIsReplaced == [][C33_Step]_vars

\* the reads throw and the writes are accepted: two appends have been made,
\* the store holds the second record only, the 64 records stored before are gone
C33_Witness ==
    /\ fault = "getItem"
    /\ Cardinality(appended \ SetOf(StoredBefore)) = 2
    /\ Len(JSONparse(localStorage[STORAGE_KEY_HISTORY])) = 1

\* the stored text did not parse: an append has replaced it by its record
C33_WitnessCorrupt ==
    /\ fault = "none"
    /\ Cardinality(appended) = 1
    /\ localStorage[STORAGE_KEY_HISTORY] = JSONstringify(<<CHOOSE r \in appended : TRUE>>)

---------------------------------------------------------------------------
\* C34: a step of push(k, ...) (its start, which clears k, and its
\* continuation, which arms the timer of k), a step of clear(k) and the fire
\* of a timer of k change the pending entry and the armed timers of no key
\* other than k; every other step changes no entry and no timer at all.
ArmedOf(armed, key) == {t \in armed : t.key = key}

\* the keys whose pending entry or armed timers differ after the step
TouchedKeys ==
    {k \in TwoKeys :
        \/ EntriesOf(scheduledTimeouts', k) # EntriesOf(scheduledTimeouts, k)
        \/ ArmedOf(timers', k) # ArmedOf(timers, k)}

\* the keys the step's operation is about
ActedKeys ==
    {calls'[c].key : c \in {d \in CallIds : PushStarts(d) \/ ClearStarts(d)}}
        \cup {calls[c].key : c \in {d \in CallIds : PushContinues(d)}}
        \cup {t.key : t \in fired' \ fired}

C34_Step ==
    /\ TouchedKeys \subseteq ActedKeys
    /\ DOMAIN scheduledTimeouts' \subseteq TwoKeys
    /\ \A t \in timers' : t.key \in TwoKeys

C34_OtherKeysUntouched == [][C34_Step]_vars

\* the timers of both keys are armed and pending, and a timer of the first
\* key has fired before: the entry and the timer of the other key were there
\* at the fire and are still there
C34_Witness ==
    /\ \E t \in fired : t.key = <<"k", 1>>
    /\ <<"k", 2>> \in DOMAIN scheduledTimeouts
    /\ \E u \in timers :
          /\ u.key = <<"k", 2>>
          /\ u.timeoutId = scheduledTimeouts[<<"k", 2>>].timeoutId
          /\ \E t \in fired : t.key = <<"k", 1>> /\ t.timeoutId > u.timeoutId

\* clear of the first key has cancelled the entry a push had registered, while
\* the entry and the timer of the second key, there since before the mount,
\* are still pending
C34_WitnessClear ==
    /\ \E e \in cancelled : e.key = <<"k", 1>>
    /\ \E c \in CallIds : calls[c].op = "clear" /\ calls[c].key = <<"k", 1>>
    /\ EntriesOf(scheduledTimeouts, <<"k", 2>>) = {PendingBefore}
    /\ TimerBefore \in timers

---------------------------------------------------------------------------
\* C35: every record appended in a step carries the clock value of that step
\* as its time, whatever time the call had asked for; a record written by a
\* timer fire carries the clock value of the fire, which is at or after the
\* requested fire time; and the stored records are in non-decreasing order of
\* time, the order in which they were appended.
NonDecreasing(history) ==
    \A i \in 1..(Len(history) - 1) : history[i].time <= history[i + 1].time

C35_Step ==
    Appending =>
       /\ \A r \in appended' \ appended :
             /\ r.time = now
             /\ \A t \in fired' \ fired : r.time >= t.fireAt
       /\ NonDecreasing(getStoredHistory(localStorage'))
       /\ LET h == getStoredHistory(localStorage')
          IN  h[Len(h)] \in appended' \ appended

C35_RecordTimeIsAppendClock == [][C35_Step]_vars

\* a timer has fired after its requested time and its record, stamped with
\* the clock of the fire, is the last of the store
C35_Witness ==
    \E t \in fired :
        /\ t.fireAt < now
        /\ StoredHistory # <<>>
        /\ LET r == StoredHistory[Len(StoredHistory)]
           IN  /\ r.id = t.timeoutId
               /\ r.time = now
               /\ r.time > t.fireAt

\* without permission a push for a later time is recorded at once, with the
\* clock value of the call and not the requested time
C35_WitnessDenied ==
    /\ permission = "denied"
    /\ \E r \in appended : r.id > 0 /\ r.time = WindowDays
    /\ fired = {} /\ timers = {}
    /\ \E c \in CallIds : PushReturned(c) /\ "time" \in DOMAIN calls[c].opts
                             /\ calls[c].opts["time"] > now

---------------------------------------------------------------------------
\* C36: once a markAsRead has stored the cursor, every record appended by a
\* later step is counted as unread by getUnreadNotificationCount from that
\* step on: its time is newer than the stored cursor, and no step other than
\* the start of a markAsRead changes the cursor.  A record appended at the
\* clock value of the cursor has a time equal to the cursor and is counted
\* as read.
C36_Step ==
    /\ (Appending /\ HasItem(localStorage, STORAGE_KEY_LAST_READ)) =>
          \A r \in appended' \ appended :
              /\ r.time > getLastReadTimestamp(localStorage')
              /\ getUnreadNotificationCount(localStorage') >= 1
    /\ CursorItemChanges => \E c \in CallIds : MarkAsReadStarts(c)

C36_AppendedAfterCursorIsUnread == [][C36_Step]_vars

====
